---- MODULE Spec2Model ----
(***************************************************************************)
(* Leader contention over a ZooKeeper group.                               *)
(*                                                                         *)
(* LeaderContenderProcess (src/src/zookeeper/contender.cpp) is modelled    *)
(* handler by handler: a libprocess actor with a FIFO mailbox, three       *)
(* Option<Promise*> slots and the candidacy future.  The Group it talks to *)
(* (declared in src/src/zookeeper/group.hpp, implemented outside src/) is  *)
(* modelled from the design specification: pending queues, owned/unowned   *)
(* maps, the membership cache and the session state machine; what it does  *)
(* when its session is lost follows the tests                              *)
(* (src/src/tests/master_contender_detector_tests.cpp).  A call into       *)
(* the group is handled at the call; its result reaches the contender as a *)
(* deferred callback in the contender's queue.  The coordination service   *)
(* is the set of ephemeral sequential znodes below the group path.         *)
(*                                                                         *)
(* Spec follows one LeaderContender and its client (contend, withdraw,     *)
(* destruction).  SpecD follows a ZooKeeperMasterContenderProcess          *)
(* (src/src/master/contender.cpp), which replaces its LeaderContender at   *)
(* every contend(), together with a LeaderDetector on the same group.      *)
(* SpecS follows a StandaloneMasterContender with a                        *)
(* StandaloneMasterDetector, SpecF applies MasterContender::create to      *)
(* every short connection string, and SpecM applies the comparison         *)
(* operators of Group::Membership.                                         *)
(***************************************************************************)
EXTENDS Integers, Sequences, FiniteSets, TLC

\* ------------------------------------------------------------------ bounds
\* The largest sequence number the coordination service hands out.
MaxSeq == 2
\* How many times the client calls contend() or withdraw() on the one
\* LeaderContender.
MaxCalls == 3
\* How many times the clients call contend() on the master contender or
\* detect() on the detector, and contend() on the standalone contender.
MaxRequests == 3
\* How many times detect() is called on the standalone detector.
MaxDetects == 2
\* The longest connection string given to MasterContender::create.
MaxLen == 4
\* How deep create() may recurse through file:// strings before the stack
\* is exhausted.
MaxDepth == 3
\* How many cancels and watches together may be pending in a group whose
\* client calls it directly.
MaxPending == 2

Seqs == 1..MaxSeq

VARIABLES
  \* ---- LeaderContenderProcess (contender.cpp:52-73)
  contending,      \* Option<Promise<Future<Nothing>>*>: "None" | "Some"
  watching,        \* Option<Promise<Nothing>*>:          "None" | "Some"
  withdrawing,     \* Option<Promise<bool>*>:             "None" | "Some"
  candidacy,       \* Future<Group::Membership>
  contendingFut,   \* the future of the contending promise (outer future)
  watchingFut,     \* the future of the watching promise (inner future)
  withdrawingFut,  \* the future of the withdrawing promise
  cancelDeferred,  \* candidacy.onAny(defer(self(), &Self::cancel)) registered
  mailbox,         \* the process's event queue
  terminated,      \* terminate(process) was handled (~LeaderContender)
  aborted,         \* a CHECK failed: the program is gone
  \* ---- what the client did and was handed
  contendCalls,    \* number of contend() dispatches
  withdrawCalls,   \* number of withdraw() dispatches
  withdrawRets,    \* the future each handled withdraw() returned, in order
  joinsIssued,     \* number of group->join() calls made by the contender
  cancelsIssued,   \* membership ids of the group->cancel() calls, in order
  cancelOutcome,   \* outcomes of the group cancels, as the contender gets them
  \* ---- GroupProcess (group.hpp:136-267)
  gstate,          \* State: "DISCONNECTED" | "CONNECTING" | "CONNECTED"
  error,           \* Option<string>: "" is None
  pendingJoins,    \* pending.joins (the client of each queued Join)
  pendingCancels,  \* pending.cancels
  pendingWatches,  \* pending.watches
  owned, unowned,  \* keys of the owned / unowned maps
  cancelledP,      \* the "cancelled" promise of each sequence
  memberships,     \* Option<set<Membership>>
  timer,           \* Option<Timer>: "none" | "armed"
  \* ---- the coordination service
  znodes,          \* sequences of the children of the group znode
  mine,            \* those created through this Group's session
  nextSeq,         \* next sequence suffix
  \* ---- ZooKeeperMasterContenderProcess (master/contender.cpp:46-63)
  epoch,           \* which LeaderContender "contender" points to: 1, 2, ...
  lostCandidacy,   \* the inner future of the LeaderContender deleted last
  \* ---- LeaderDetectorProcess
  leader,          \* Option<Membership>: the sequence, 0 is None
  promises,        \* number of pending detect() promises
  detected,        \* the result last handed to a detect() caller
  dmailbox,        \* the detector's event queue
  detectCalls,     \* number of detect() dispatches
  \* ---- StandaloneMasterContender (master/contender.cpp:97-130)
  initialized,     \* bool
  promise,         \* Promise<Nothing>*: 0 is NULL, else the index in inners
  inners,          \* the inner futures contend() handed out, in order
  contended,       \* the outer futures contend() returned, in order
  deleted,         \* the contender has been destroyed
  checkFailed,     \* CHECK(initialized) has failed
  \* ---- StandaloneMasterDetector
  appointed,       \* the leader: an identity, 0 is None
  detects,         \* the detect() calls made, in order
  \* ---- MasterContender::create (master/contender.cpp:66-91)
  zk,              \* the connection string
  files,           \* what os::read gives for each path
  created,         \* what create(zk) returned
  \* ---- Group::Membership (group.hpp:37-93)
  lhs, rhs, third, \* three memberships
  compared         \* what the operators said of lhs and rhs

cvars == <<contending, watching, withdrawing, candidacy, contendingFut,
           watchingFut, withdrawingFut, cancelDeferred, mailbox, terminated,
           aborted>>
hvars == <<contendCalls, withdrawCalls, withdrawRets, joinsIssued,
           cancelsIssued, cancelOutcome>>
gvars == <<gstate, error, pendingJoins, pendingCancels, pendingWatches,
           owned, unowned, cancelledP, memberships, timer>>
zvars == <<znodes, mine, nextSeq>>
dvars == <<epoch, lostCandidacy, leader, promises, detected, dmailbox,
           detectCalls>>
svars == <<initialized, promise, inners, contended, deleted, checkFailed,
           appointed, detects>>
fvars == <<zk, files, created>>
mvars == <<lhs, rhs, third, compared>>
vars == <<cvars, hvars, gvars, zvars, dvars, svars, fvars, mvars>>

\* ------------------------------------------------------------------ futures
\* A process::Future: pending, ready with a value, or failed with a message.
\* The value of a Future<bool> is "true" or "false".
Pending == [st |-> "pending", val |-> "", msg |-> ""]
Ready(v) == [st |-> "ready", val |-> v, msg |-> ""]
Failed(m) == [st |-> "failed", val |-> "", msg |-> m]
\* Future<Membership>: the value is the sequence (0 while there is none).
PendingM == [st |-> "pending", seq |-> 0, msg |-> ""]
ReadyM(s) == [st |-> "ready", seq |-> s, msg |-> ""]
FailedM(m) == [st |-> "failed", seq |-> 0, msg |-> m]

\* Promise<T>::set / fail: only a pending future changes.
SetFut(f, v) == IF f.st = "pending" THEN Ready(v) ELSE f
FailFut(f, m) == IF f.st = "pending" THEN Failed(m) ELSE f
\* Promise<bool>::set(const Future<bool>&): take the outcome of that future.
AssociateFut(f, r) == IF f.st = "pending" THEN r ELSE f

\* Result<Membership> as a detect() caller gets it: the leader's sequence,
\* None, or an error; NoResult while no detect() has been answered.
NoResult == [k |-> "no", q |-> 0, msg |-> ""]
SomeLeader(q) == [k |-> "some", q |-> q, msg |-> ""]
NoLeader == [k |-> "none", q |-> 0, msg |-> ""]
ErrorResult(m) == [k |-> "error", q |-> 0, msg |-> m]

\* Option<set<Membership>>
NoneCache == [valid |-> FALSE, set |-> {}]
SomeCache(S) == [valid |-> TRUE, set |-> S]

SessionExpiredMsg == "session expired"
NotOwnedMsg == "not owned"
AuthFailedMsg == "authentication failed"

\* ------------------------------------------------------------------ messages
\* Events in the contender's queue.
Msg(t) == [t |-> t, r |-> Pending, s |-> {}]
CancelledMsg(r) == [t |-> "cancelled", r |-> r, s |-> {}]
\* A withdraw() dispatch; r notes whether the join had failed when the
\* client made the call (the handler does not read it).
WithdrawMsg(f) ==
  [t |-> "withdraw",
   r |-> IF f.st = "failed" THEN Failed(f.msg) ELSE Pending,
   s |-> {}]
WatchedOk(S) == [t |-> "watched", r |-> Ready("set"), s |-> S]
WatchedFailed(m) == [t |-> "watched", r |-> Failed(m), s |-> {}]

\* The clients of the group.  A LeaderContenderProcess is known by the
\* number of the contend() of the master contender that created it
\* (1, 2, ...); the LeaderDetectorProcess is client 0.
DetectorClient == 0

\* A callback deferred to the process of client c.
Callback(c, m) == [c |-> c, m |-> m]

\* The events among the callbacks cbs that are for client c, in order.
RECURSIVE EventsFor(_, _)
EventsFor(c, cbs) ==
  IF cbs = <<>> THEN <<>>
  ELSE IF Head(cbs).c = c THEN <<Head(cbs).m>> \o EventsFor(c, Tail(cbs))
  ELSE EventsFor(c, Tail(cbs))

\* defer(self(), ...): the callbacks for the running contender reach its
\* queue; a dispatch to a terminated process is dropped, as is a callback
\* for a contender that has been deleted.
Deliver(mb, cbs) ==
  IF terminated THEN mb ELSE mb \o EventsFor(epoch, cbs)

\* ------------------------------------------------------------ GroupProcess
\* The group and the service as one record, so that a handler that runs
\* several steps (sync: joins, cancels, cache, update) is one action.
\* caller: the client making the call; out: the callbacks the handler
\* dispatches, in order.
GroupNow ==
  [gstate |-> gstate, error |-> error, pj |-> pendingJoins,
   pc |-> pendingCancels, pw |-> pendingWatches, owned |-> owned,
   unowned |-> unowned, cp |-> cancelledP, mem |-> memberships,
   timer |-> timer, znodes |-> znodes, mine |-> mine, nextSeq |-> nextSeq,
   cand |-> candidacy, epoch |-> epoch, caller |-> epoch, out |-> <<>>]

\* The callbacks registered on candidacy with onAny, in registration order:
\* joined (contender.cpp:124-125), then cancel if withdraw() deferred it
\* (contender.cpp:150).
CandidacyCallbacks ==
  <<Msg("joined")>> \o (IF cancelDeferred THEN <<Msg("cancel")>> ELSE <<>>)

\* The join promise of client c is resolved.  The future of a join made by
\* a contender that has been deleted since is held by nobody.
ResolveJoin(g, c, f) ==
  IF c # g.epoch THEN g
  ELSE [g EXCEPT !.cand = f,
                 !.out = g.out \o [i \in DOMAIN CandidacyCallbacks |->
                                     Callback(c, CandidacyCallbacks[i])]]

\* A cancel promise of client c is resolved.
ResolveCancel(g, c, f) ==
  [g EXCEPT !.out = Append(g.out, Callback(c, CancelledMsg(f)))]

\* doJoin: create the ephemeral sequential znode; the membership is owned;
\* the cache is invalidated (group.hpp:106-112, 170, 257).
DoJoin(g, c) ==
  ResolveJoin(
    [g EXCEPT !.znodes = g.znodes \cup {g.nextSeq},
              !.mine = g.mine \cup {g.nextSeq},
              !.nextSeq = g.nextSeq + 1,
              !.owned = g.owned \cup {g.nextSeq},
              !.cp = [g.cp EXCEPT ![g.nextSeq] = "pending"],
              !.mem = NoneCache],
    c, ReadyM(g.nextSeq))

\* A doCancel that removes the entry from owned but leaves its cancelled
\* promise unset.
DoCancelLeavingPromise(g, c, q) ==
  IF q \in g.znodes
  THEN ResolveCancel(
         [g EXCEPT !.znodes = g.znodes \ {q},
                   !.mine = g.mine \ {q},
                   !.owned = g.owned \ {q},
                   !.mem = NoneCache],
         c, Ready("true"))
  ELSE ResolveCancel(g, c, Ready("false"))

\* doCancel: delete the znode.  True iff the delete succeeded; then the
\* cancelled promise is set to true first, the entry leaves owned and the
\* cache is invalidated (group.hpp:114-116, 171).
DoCancel(g, c, q) ==
  IF q \in g.znodes
  THEN ResolveCancel(
         [g EXCEPT !.znodes = g.znodes \ {q},
                   !.mine = g.mine \ {q},
                   !.owned = g.owned \ {q},
                   !.cp = [g.cp EXCEPT ![q] = "true"],
                   !.mem = NoneCache],
         c, Ready("true"))
  ELSE ResolveCancel(g, c, Ready("false"))

\* A cache() that makes no entry for a sequence it sees for the first time.
CacheWithoutNew(g) ==
  LET gone == (g.owned \cup g.unowned) \ g.znodes
  IN [g EXCEPT !.unowned = g.unowned \ gone,
               !.owned = g.owned \ gone,
               !.cp = [q \in Seqs |->
                         IF q \in gone THEN "false" ELSE g.cp[q]],
               !.mem = SomeCache(g.znodes)]

\* cache(): replace memberships by the children of the group znode; a new
\* sequence becomes unowned with a fresh cancelled promise, a sequence that
\* is gone has its cancelled promise set to false and its entry removed
\* (group.hpp:174-175, 254-262).
Cache(g) ==
  LET known == g.owned \cup g.unowned
      new == g.znodes \ known
      gone == known \ g.znodes
  IN [g EXCEPT !.unowned = (g.unowned \cup new) \ gone,
               !.owned = g.owned \ gone,
               !.cp = [q \in Seqs |->
                         IF q \in new THEN "pending"
                         ELSE IF q \in gone THEN "false"
                         ELSE g.cp[q]],
               !.mem = SomeCache(g.znodes)]

\* A watch that the empty expected set makes fire on any cached set.
WatchFiresOnEmpty(expected, S) == expected # S \/ expected = {}

\* "Returns a future that gets set when the group memberships differ from
\* the expected memberships specified" (group.hpp:122-125): a watch is
\* resolved by a cached set that differs from what it expects, whatever it
\* expects; the default argument is the empty set.
WatchFires(expected, S) == expected # S

\* A pending watch: the client c that made it and the set e it expects.
PendingWatch(c, e) == [c |-> c, e |-> e]

RECURSIVE KeepWatches(_, _)
KeepWatches(pw, S) ==
  IF pw = <<>> THEN <<>>
  ELSE IF WatchFires(Head(pw).e, S) THEN KeepWatches(Tail(pw), S)
  ELSE <<Head(pw)>> \o KeepWatches(Tail(pw), S)

RECURSIVE FiredWatches(_, _)
FiredWatches(pw, S) ==
  IF pw = <<>> THEN <<>>
  ELSE IF WatchFires(Head(pw).e, S)
       THEN <<Callback(Head(pw).c, WatchedOk(S))>>
              \o FiredWatches(Tail(pw), S)
  ELSE FiredWatches(Tail(pw), S)

\* An update() that resolves the first pending watch the cached set
\* resolves and keeps the others.
RECURSIVE KeepButFirst(_, _)
KeepButFirst(pw, S) ==
  IF pw = <<>> THEN <<>>
  ELSE IF WatchFires(Head(pw).e, S) THEN Tail(pw)
  ELSE <<Head(pw)>> \o KeepButFirst(Tail(pw), S)

UpdateResolvingOne(g) ==
  IF ~g.mem.valid THEN g
  ELSE LET fired == FiredWatches(g.pw, g.mem.set)
       IN [g EXCEPT !.pw = KeepButFirst(g.pw, g.mem.set),
                    !.out = g.out \o (IF fired = <<>> THEN <<>>
                                      ELSE <<Head(fired)>>)]

\* update(): walk the pending watches after a successful cache()
\* (group.hpp:177-178).
Update(g) ==
  IF ~g.mem.valid THEN g
  ELSE [g EXCEPT !.pw = KeepWatches(g.pw, g.mem.set),
                 !.out = g.out \o FiredWatches(g.pw, g.mem.set)]

RECURSIVE FailJoins(_, _)
FailJoins(g, m) ==
  IF g.pj = <<>> THEN g
  ELSE FailJoins(ResolveJoin([g EXCEPT !.pj = Tail(g.pj)], Head(g.pj),
                             FailedM(m)), m)

RECURSIVE FailCancels(_, _)
FailCancels(g, m) ==
  IF g.pc = <<>> THEN g
  ELSE FailCancels(ResolveCancel([g EXCEPT !.pc = Tail(g.pc)], Head(g.pc).c,
                                 Failed(m)), m)

RECURSIVE DoPendingCancels(_)
DoPendingCancels(g) ==
  IF g.pc = <<>> THEN g
  ELSE DoPendingCancels(DoCancel([g EXCEPT !.pc = Tail(g.pc)], Head(g.pc).c,
                                 Head(g.pc).q))

RECURSIVE DoPendingJoins(_)
DoPendingJoins(g) ==
  IF g.pj = <<>> THEN g
  ELSE DoPendingJoins(DoJoin([g EXCEPT !.pj = Tail(g.pj)], Head(g.pj)))

\* abort(): fail all pending operations with the message m, in the order
\* joins, cancels, watches (group.hpp:190-191, 245-250).
AbortPending(g, m) ==
  LET g1 == FailCancels(FailJoins(g, m), m)
  IN [g1 EXCEPT !.pw = <<>>,
                !.out = g1.out \o
                  [i \in DOMAIN g1.pw |->
                     Callback(g1.pw[i].c, WatchedFailed(m))]]

\* expired(): the session is gone.  The timer is cancelled, the cache is
\* invalidated, every cancelled promise is set to false, and the group
\* opens a new session (state CONNECTING); pending operations stay and are
\* served once the new session is connected.  That the group goes on after
\* an expiry is what the tests require: a watch pending at the expiry
\* resolves with the snapshot of the new session
\* (master_contender_detector_tests.cpp:199-210, 546-564).
Expire(g) ==
  [g EXCEPT !.cp = [q \in Seqs |->
                      IF q \in g.owned \cup g.unowned THEN "false"
                      ELSE g.cp[q]],
            !.owned = {}, !.unowned = {},
            !.mem = NoneCache,
            !.timer = "none",
            !.gstate = "CONNECTING",
            !.mine = {}]

\* A non-retryable error (group.hpp:195): the error is set and all pending
\* operations fail with it.
Fail(g, m) == [AbortPending(g, m) EXCEPT !.error = m, !.timer = "none"]

\* A timedout() that leaves the group with the error "session expired".
TimeOutForGood(g) == Fail(g, SessionExpiredMsg)

\* timedout(sessionId): the group gives the session up on its own.  All
\* pending operations fail, then the group goes on as after an expiry;
\* operations issued later are served once it is connected again
\* (master_contender_detector_tests.cpp:297-322).  The znodes of the
\* abandoned session stay until the service removes them.
TimeOut(g) == Expire(AbortPending(g, SessionExpiredMsg))

\* A timer callback that gives the session up whatever became of the timer.
timedoutWhateverTheTimer(g) == TimeOut(g)

\* The callback of the session timer (group.hpp:193, 264-266).  It acts
\* only if the timer it belongs to is still armed: connected() disarms the
\* timer, and a callback that was already scheduled then does nothing.
timedout(g) == IF g.timer # "armed" THEN g ELSE TimeOut(g)

\* sync(): perform the pending operations, cache the memberships if the
\* cache is invalid, update the watches (group.hpp:180-182).
Sync(g) ==
  LET g1 == DoPendingCancels(DoPendingJoins(g))
  IN Update(IF g1.mem.valid THEN g1 ELSE Cache(g1))

\* The group can act on the service: it is connected.  Otherwise an
\* operation is queued and retried.
CanOperate(g) == g.gstate = "CONNECTED"

\* join(data) (group.hpp:112, 154).
Join(g) ==
  IF g.error # "" THEN ResolveJoin(g, g.caller, FailedM(g.error))
  ELSE IF ~CanOperate(g) THEN [g EXCEPT !.pj = Append(g.pj, g.caller)]
  ELSE DoJoin(g, g.caller)

\* A pending cancel: the client c that made it and the sequence q.
PendingCancel(c, q) == [c |-> c, q |-> q]

\* A cancel(membership) that does not look at who owns the membership.
CancelWhoeverOwns(g, q) ==
  IF g.error # "" THEN ResolveCancel(g, g.caller, Failed(g.error))
  ELSE IF ~CanOperate(g)
  THEN [g EXCEPT !.pc = Append(g.pc, PendingCancel(g.caller, q))]
  ELSE DoCancel(g, g.caller, q)

\* cancel(membership): only an owned membership can be cancelled
\* (group.hpp:114-116, 155).
Cancel(g, q) ==
  IF g.error # "" THEN ResolveCancel(g, g.caller, Failed(g.error))
  ELSE IF q \notin g.owned
  THEN ResolveCancel(g, g.caller, Failed(NotOwnedMsg))
  ELSE IF ~CanOperate(g)
  THEN [g EXCEPT !.pc = Append(g.pc, PendingCancel(g.caller, q))]
  ELSE DoCancel(g, g.caller, q)

\* watch(expected) (group.hpp:122-125, 157-158).
Watch(g, expected) ==
  IF g.error # ""
  THEN [g EXCEPT !.out = Append(g.out,
                                Callback(g.caller, WatchedFailed(g.error)))]
  ELSE IF ~CanOperate(g)
  THEN [g EXCEPT !.pw = Append(g.pw, PendingWatch(g.caller, expected))]
  ELSE LET g1 == IF g.mem.valid THEN g ELSE Cache(g)
       IN IF WatchFires(expected, g1.mem.set)
          THEN [g1 EXCEPT !.out = Append(g1.out,
                                   Callback(g.caller, WatchedOk(g1.mem.set)))]
          ELSE [g1 EXCEPT !.pw = Append(g1.pw,
                                        PendingWatch(g.caller, expected))]
\* The standalone contender and detector as constructed: not initialized,
\* no promise, no leader.
InitStandalone ==
  /\ initialized = FALSE /\ promise = 0
  /\ inners = <<>> /\ contended = <<>>
  /\ deleted = FALSE /\ checkFailed = FALSE
  /\ appointed = 0 /\ detects = <<>>

\* What create() returns: one record shape for the three outcomes.
NotCreated == [kind |-> "none", url |-> <<>>, msg |-> "", arg |-> <<>>]

\* os::read of a file: an error, or the contents.
Unreadable == [ok |-> FALSE, data |-> <<>>]
Contents(s) == [ok |-> TRUE, data |-> s]

\* The paths there may be a file at.
Paths == {<<"a">>, <<"/", "a">>}

\* No connection string is looked at.
NoCreate ==
  /\ zk = <<>> /\ files = [p \in Paths |-> Unreadable]
  /\ created = NotCreated

\* A Membership: the sequence and the cancelled future, which is pending,
\* or ready with true or false.
Membership(sequence, cancelled) ==
  [sequence |-> sequence, cancelled |-> cancelled]

NotCompared ==
  [done |-> FALSE, eq |-> FALSE, ne |-> FALSE, lt |-> FALSE, le |-> FALSE,
   gt |-> FALSE, ge |-> FALSE]

\* No memberships are compared.
NoComparison ==
  /\ lhs = Membership(1, "pending") /\ rhs = lhs /\ third = lhs
  /\ compared = NotCompared

\* ------------------------------------------------------------------ Init
\* The state after construction, with pw the watches the group was handed
\* by then.
InitZooKeeper(pw) ==
  /\ contending = "None" /\ watching = "None" /\ withdrawing = "None"
  /\ candidacy = PendingM
  /\ contendingFut = Pending /\ watchingFut = Pending
  /\ withdrawingFut = Pending
  /\ cancelDeferred = FALSE
  /\ mailbox = <<>>
  /\ terminated = FALSE /\ aborted = FALSE
  /\ contendCalls = 0 /\ withdrawCalls = 0
  /\ withdrawRets = <<>>
  /\ joinsIssued = 0
  /\ cancelsIssued = <<>>
  /\ cancelOutcome = <<>>
  /\ gstate = "CONNECTING"
  /\ error = ""
  /\ pendingJoins = <<>>
  /\ pendingCancels = <<>>
  /\ pendingWatches = pw
  /\ owned = {} /\ unowned = {}
  /\ cancelledP = [q \in Seqs |-> "none"]
  /\ memberships = NoneCache
  /\ timer = "none"
  /\ znodes = {} /\ mine = {}
  /\ nextSeq = 1
  /\ epoch = 1
  /\ lostCandidacy = Pending
  /\ leader = 0 /\ promises = 0
  /\ detected = NoResult
  /\ dmailbox = <<>>
  /\ detectCalls = 0

\* The contender on a group, with pw the watches pending in the group; the
\* other objects are as constructed.
InitWith(pw) ==
  InitZooKeeper(pw) /\ InitStandalone /\ NoCreate /\ NoComparison

Init == InitWith(<<>>)


\* ------------------------------------------------ LeaderContenderProcess
\* The contender's fields, what the client was handed, and the group it
\* holds a pointer to, as one record: a handler maps it to the record after
\* the handler returned.
ContenderNow ==
  [contending |-> contending, watching |-> watching,
   withdrawing |-> withdrawing, contendingFut |-> contendingFut,
   watchingFut |-> watchingFut, withdrawingFut |-> withdrawingFut,
   cancelDeferred |-> cancelDeferred, aborted |-> aborted,
   withdrawRets |-> withdrawRets, joinsIssued |-> joinsIssued,
   cancelsIssued |-> cancelsIssued, watchCalls |-> <<>>,
   g |-> GroupNow]

\* A failed CHECK: abort().  Nothing else changes, nothing runs afterwards.
abort(x) == [x EXCEPT !.aborted = TRUE]

\* group->join(data); the future is assigned to candidacy
\* (contender.cpp:123).
groupJoin(x) ==
  [x EXCEPT !.g = Join([x.g EXCEPT !.cand = PendingM]),
            !.joinsIssued = x.joinsIssued + 1]

\* group->cancel(membership) (contender.cpp:174).
groupCancel(x, q) ==
  [x EXCEPT !.g = Cancel(x.g, q),
            !.cancelsIssued = Append(x.cancelsIssued, q)]

\* group->watch(expected) (contender.cpp:215, 251); watchCalls lists the
\* arguments of the calls the running handler has made.
groupWatch(x, expected) ==
  [x EXCEPT !.g = Watch(x.g, expected),
            !.watchCalls = Append(x.watchCalls, expected)]

\* cancel() (contender.cpp:165-176).
cancel(x) ==
  IF x.g.cand.st # "ready"
  THEN x   \* Nothing to cancel.
  ELSE groupCancel(x, x.g.cand.seq)

\* A fail() that leaves the watching promise alone.
failButWatching(x, message) ==
  [x EXCEPT
     !.contendingFut = IF x.contending = "Some"
                       THEN FailFut(x.contendingFut, message)
                       ELSE x.contendingFut,
     !.withdrawingFut = IF x.withdrawing = "Some"
                        THEN FailFut(x.withdrawingFut, message)
                        ELSE x.withdrawingFut]

\* fail(message) (contender.cpp:257-270).
fail(x, message) ==
  [x EXCEPT
     !.contendingFut = IF x.contending = "Some"
                       THEN FailFut(x.contendingFut, message)
                       ELSE x.contendingFut,
     !.watchingFut = IF x.watching = "Some"
                     THEN FailFut(x.watchingFut, message)
                     ELSE x.watchingFut,
     !.withdrawingFut = IF x.withdrawing = "Some"
                        THEN FailFut(x.withdrawingFut, message)
                        ELSE x.withdrawingFut]

\* A contend() without the CHECK: it joins again.
contendAgain(x) ==
  [groupJoin(x) EXCEPT !.contending = "Some", !.contendingFut = Pending]

\* contend() (contender.cpp:118-130).
contend(x) ==
  IF x.contending # "None"
  THEN abort(x)   \* "Cannot contend more than once"
  ELSE [groupJoin(x) EXCEPT !.contending = "Some", !.contendingFut = Pending]

\* What a withdraw() call returned: the future of the withdrawing promise,
\* or a future constructed from a bool.
RetPromise == [kind |-> "promise", val |-> ""]
RetValue(b) == [kind |-> "value", val |-> b]

\* "return withdrawing.get();" (contender.cpp:138-141).  withdrawing.get()
\* is a Promise<bool>*; the return type is Future<bool>, so the pointer is
\* converted to bool (non-null: true) and a ready future is built from it.
RepeatedWithdrawResult == RetValue("true")

returns(x, ret) == [x EXCEPT !.withdrawRets = Append(x.withdrawRets, ret)]

\* A withdraw() that cancels the membership without assigning withdrawing.
withdrawWithoutSlot(x) ==
  IF x.contending # "Some"
  THEN abort(x)
  ELSE IF x.g.cand.st = "pending"
  THEN returns([x EXCEPT !.cancelDeferred = TRUE], RetPromise)
  ELSE IF x.g.cand.st = "ready"
  THEN returns(cancel(x), RetPromise)
  ELSE returns(x, RetValue("false"))

\* A withdraw() that cancels at once, whatever the state of candidacy.
withdrawCancellingAtOnce(x) ==
  IF x.contending # "Some"
  THEN abort(x)
  ELSE IF x.withdrawing = "Some"
  THEN returns(x, RepeatedWithdrawResult)
  ELSE returns(groupCancel([x EXCEPT !.withdrawing = "Some",
                                     !.withdrawingFut = Pending],
                           x.g.cand.seq),
               RetPromise)

\* withdraw() (contender.cpp:133-162).
withdraw(x) ==
  IF x.contending # "Some"
  THEN abort(x)   \* "Can only withdraw after the contender has contended"
  ELSE IF x.withdrawing = "Some"
  THEN returns(x, RepeatedWithdrawResult)
  ELSE LET x1 == [x EXCEPT !.withdrawing = "Some",
                           !.withdrawingFut = Pending]
       IN IF x1.g.cand.st = "pending"
          THEN \* candidacy.onAny(defer(self(), &Self::cancel))
               returns([x1 EXCEPT !.cancelDeferred = TRUE], RetPromise)
          ELSE IF x1.g.cand.st = "ready"
          THEN returns(cancel(x1), RetPromise)
          ELSE returns(x1, RetValue("false"))

\* A cancelled() that gives the withdrawing slot up once it is answered.
cancelledResettingSlot(x, successful) ==
  IF x.g.cand.st # "ready" \/ x.withdrawing # "Some"
  THEN abort(x)
  ELSE [x EXCEPT !.withdrawingFut = AssociateFut(x.withdrawingFut, successful),
                 !.withdrawing = "None"]

\* A cancelled() that reports success whatever the group answered.
cancelledAsTrue(x, successful) ==
  IF x.g.cand.st # "ready" \/ x.withdrawing # "Some"
  THEN abort(x)
  ELSE [x EXCEPT !.withdrawingFut = SetFut(x.withdrawingFut, "true")]

\* cancelled(successful) (contender.cpp:179-186).
cancelled(x, successful) ==
  IF x.g.cand.st # "ready" \/ x.withdrawing # "Some"
  THEN abort(x)
  ELSE [x EXCEPT !.withdrawingFut = AssociateFut(x.withdrawingFut, successful)]

\* A joined() that assigns the watching slot but never sets the contending
\* promise.
joinedWithoutSet(x) ==
  IF x.g.cand.st = "failed"
  THEN fail(x, x.g.cand.msg)
  ELSE IF x.g.cand.st # "ready"
  THEN abort(x)
  ELSE IF x.withdrawing = "Some"
  THEN x
  ELSE [x EXCEPT !.watching = "Some", !.watchingFut = Pending]

\* joined() (contender.cpp:189-218).
joined(x) ==
  IF x.g.cand.st = "failed"
  THEN fail(x, x.g.cand.msg)
  ELSE IF x.g.cand.st # "ready"
  THEN abort(x)
  ELSE IF x.withdrawing = "Some"
  THEN x   \* "Joined group after the contender started withdrawing"
  ELSE IF x.watching # "None" \/ x.contending # "Some"
  THEN abort(x)
  ELSE LET x1 == [x EXCEPT !.watching = "Some", !.watchingFut = Pending]
       IN IF x1.contendingFut.st = "pending"
          THEN groupWatch([x1 EXCEPT !.contendingFut = Ready("watching")], {})
          ELSE x1

\* A watched() that watches again for any change rather than for a change
\* of the snapshot it was handed.
watchedExpectingNothing(x, r, S) ==
  IF x.contending # "Some" \/ x.contendingFut.st # "ready"
  THEN abort(x)
  ELSE IF x.withdrawing = "Some"
  THEN x
  ELSE IF r.st = "failed"
  THEN fail(x, r.msg)
  ELSE IF r.st # "ready" \/ x.watching # "Some" \/ x.g.cand.st # "ready"
  THEN abort(x)
  ELSE IF x.g.cand.seq \notin S
  THEN [x EXCEPT !.watchingFut = SetFut(x.watchingFut, "nothing")]
  ELSE groupWatch(x, {})

\* A watched() that fails the watching promise when the candidacy is lost.
watchedFailingOnLoss(x, r, S) ==
  IF x.contending # "Some" \/ x.contendingFut.st # "ready"
  THEN abort(x)
  ELSE IF x.withdrawing = "Some"
  THEN x
  ELSE IF r.st = "failed"
  THEN fail(x, r.msg)
  ELSE IF r.st # "ready" \/ x.watching # "Some" \/ x.g.cand.st # "ready"
  THEN abort(x)
  ELSE IF x.g.cand.seq \notin S
  THEN [x EXCEPT !.watchingFut = FailFut(x.watchingFut, "lost candidacy")]
  ELSE groupWatch(x, S)

\* watched(memberships) (contender.cpp:221-254); memberships is the future
\* r with, when it is ready, the set S.
watched(x, r, S) ==
  IF x.contending # "Some" \/ x.contendingFut.st # "ready"
  THEN abort(x)   \* "'Contending' must be ready before 'watching'"
  ELSE IF x.withdrawing = "Some"
  THEN x   \* "Group memberships changed after the contender started
           \*  withdrawing"
  ELSE IF r.st = "failed"
  THEN fail(x, r.msg)
  ELSE IF r.st # "ready" \/ x.watching # "Some" \/ x.g.cand.st # "ready"
  THEN abort(x)
  ELSE IF x.g.cand.seq \notin S
  THEN \* "Lost candidacy"
       [x EXCEPT !.watchingFut = SetFut(x.watchingFut, "nothing")]
  ELSE groupWatch(x, S)

\* A finalize() that cancels nothing.
finalizeWithoutCancel(x) ==
  [x EXCEPT !.contending = "None", !.watching = "None",
            !.withdrawing = "None"]

\* finalize(), then ~LeaderContenderProcess: cancel() without waiting for
\* its result; the three promises are deleted without being set and the
\* slots reset (contender.cpp:84-115).
finalize(x) ==
  [cancel(x) EXCEPT !.contending = "None", !.watching = "None",
                    !.withdrawing = "None"]

\* ------------------------------------------------------------------ steps
\* The contender's fields and what its client was handed become those of
\* the record x.
CommitContender(x) ==
  /\ contending' = x.contending
  /\ watching' = x.watching
  /\ withdrawing' = x.withdrawing
  /\ contendingFut' = x.contendingFut
  /\ watchingFut' = x.watchingFut
  /\ withdrawingFut' = x.withdrawingFut
  /\ cancelDeferred' = x.cancelDeferred
  /\ aborted' = x.aborted
  /\ withdrawRets' = x.withdrawRets
  /\ joinsIssued' = x.joinsIssued
  /\ cancelsIssued' = x.cancelsIssued

\* The group's fields and the service become those of the record g, but
\* for the cancelled promises of the memberships.
CommitSession(g) ==
  /\ gstate' = g.gstate
  /\ error' = g.error
  /\ pendingJoins' = g.pj
  /\ pendingCancels' = g.pc
  /\ pendingWatches' = g.pw
  /\ owned' = g.owned
  /\ unowned' = g.unowned
  /\ memberships' = g.mem
  /\ timer' = g.timer
  /\ znodes' = g.znodes
  /\ mine' = g.mine
  /\ nextSeq' = g.nextSeq
  /\ candidacy' = g.cand

\* The group and the service become those of the record g.  No client
\* here holds a Membership's cancelled future: those are left as they are.
CommitGroup(g) ==
  /\ CommitSession(g)
  /\ UNCHANGED cancelledP

\* The outcomes of the cancels among the events evs, in order.
RECURSIVE CancelOutcomes(_)
CancelOutcomes(evs) ==
  IF evs = <<>> THEN <<>>
  ELSE IF Head(evs).t = "cancelled"
  THEN <<Head(evs).r>> \o CancelOutcomes(Tail(evs))
  ELSE CancelOutcomes(Tail(evs))

\* The record x becomes the next state; the contender's queue becomes mb
\* followed by the events evs it is sent.  The callbacks for the detector
\* reach the detector's queue.
Commit(x, mb, evs) ==
  /\ CommitContender(x)
  /\ CommitGroup(x.g)
  /\ mailbox' = mb \o evs
  /\ cancelOutcome' = cancelOutcome \o CancelOutcomes(evs)
  /\ dmailbox' = dmailbox \o EventsFor(DetectorClient, x.g.out)
  /\ UNCHANGED <<leader, promises, detected>>

\* The process handles the event at the head of its queue; the callbacks
\* the handler's calls into the group produce are queued behind the rest.
Handles(t) ==
  /\ ~terminated /\ ~aborted
  /\ mailbox # <<>>
  /\ Head(mailbox).t = t

Handle(x) ==
  /\ Commit(x, Tail(mailbox),
            IF x.aborted THEN <<>> ELSE EventsFor(epoch, x.g.out))
  /\ UNCHANGED <<terminated, contendCalls, withdrawCalls, epoch,
                 lostCandidacy, detectCalls, svars, fvars,
                 mvars>>

\* The service's sequence counter is bounded: a join that would create a
\* znode needs a sequence number that is left.
CanCreate(n) ==
  (error = "" /\ gstate = "CONNECTED") => nextSeq + n - 1 <= MaxSeq

\* ProcessBase::visit(DispatchEvent): the handler the event m runs, applied
\* to the contender as it is now.
Handler(m) ==
  CASE m.t = "contend" -> contend(ContenderNow)
    [] m.t = "withdraw" -> withdraw(ContenderNow)
    [] m.t = "cancel" -> cancel(ContenderNow)
    [] m.t = "cancelled" -> cancelled(ContenderNow, m.r)
    [] m.t = "joined" -> joined(ContenderNow)
    [] m.t = "watched" -> watched(ContenderNow, m.r, m.s)

HandleContend ==
  /\ Handles("contend")
  /\ contending = "None" => CanCreate(1)
  /\ Handle(Handler(Head(mailbox)))

HandleWithdraw ==
  /\ Handles("withdraw")
  /\ Handle(Handler(Head(mailbox)))

HandleCancel ==
  /\ Handles("cancel")
  /\ Handle(Handler(Head(mailbox)))

HandleCancelled ==
  /\ Handles("cancelled")
  /\ Handle(Handler(Head(mailbox)))

HandleJoined ==
  /\ Handles("joined")
  /\ Handle(Handler(Head(mailbox)))

HandleWatched ==
  /\ Handles("watched")
  /\ Handle(Handler(Head(mailbox)))

\* ~LeaderContender: terminate(process) is injected ahead of the queued
\* events, which are dropped, as is every later dispatch to the process
\* (contender.cpp:280-285).
Destroy ==
  /\ ~terminated /\ ~aborted
  /\ terminated' = TRUE
  /\ Commit(finalize(ContenderNow), <<>>, <<>>)
  /\ UNCHANGED <<contendCalls, withdrawCalls, epoch, lostCandidacy,
                 detectCalls, svars, fvars, mvars>>

\* The client's calls leave everything but the contender's queue alone.
Dispatch(m) ==
  /\ ~terminated /\ ~aborted
  /\ contendCalls + withdrawCalls < MaxCalls
  /\ Commit(ContenderNow, mailbox, <<m>>)
  /\ UNCHANGED <<terminated, epoch, lostCandidacy, detectCalls, svars,
                 fvars, mvars>>

\* LeaderContender::contend(): dispatch(process, &contend)
\* (contender.cpp:288-291).
CallContend ==
  /\ Dispatch(Msg("contend"))
  /\ contendCalls' = contendCalls + 1
  /\ UNCHANGED withdrawCalls

\* LeaderContender::withdraw(): dispatch(process, &withdraw)
\* (contender.cpp:294-297).
CallWithdraw ==
  /\ Dispatch(WithdrawMsg(candidacy))
  /\ withdrawCalls' = withdrawCalls + 1
  /\ UNCHANGED contendCalls

\* ------------------------------------------------------------ group events
\* A group event leaves the contender alone but for the callbacks it gets.
GroupEvent(g) ==
  /\ ~aborted
  /\ Commit([ContenderNow EXCEPT !.g = g], mailbox, Deliver(<<>>, g.out))
  /\ UNCHANGED <<terminated, contendCalls, withdrawCalls, epoch,
                 lostCandidacy, detectCalls, svars, fvars,
                 mvars>>

\* connected(reconnect): the state becomes CONNECTED, the timer is disarmed,
\* sync() runs (group.hpp:162).
Connected ==
  /\ error = ""
  /\ gstate # "CONNECTED"
  /\ nextSeq + Len(pendingJoins) - 1 <= MaxSeq
  /\ GroupEvent(Sync([GroupNow EXCEPT !.gstate = "CONNECTED",
                                      !.timer = "none"]))

\* reconnecting(): the connection is lost; the session timer is armed and
\* the cache is invalidated; pending operations stay (group.hpp:163).
Reconnecting ==
  /\ error = ""
  /\ gstate = "CONNECTED"
  /\ GroupEvent([GroupNow EXCEPT !.gstate = "DISCONNECTED",
                                 !.timer = "armed", !.mem = NoneCache])

\* expired(): the service has expired the session of this group, so the
\* znodes created through it are gone, and the group is told (group.hpp:164).
Expired ==
  /\ error = ""
  /\ GroupEvent(Expire([GroupNow EXCEPT !.znodes = znodes \ mine]))

\* timedout(sessionId): the session timer armed at the disconnection ran
\* out before the connection was restored (group.hpp:193, 264-266).
Timedout ==
  /\ error = ""
  /\ timer = "armed"
  /\ GroupEvent(TimeOut(GroupNow))

\* The service rejects the group for good (authentication failure): the
\* group has a non-retryable error (group.hpp:195).
NonRetryable ==
  /\ error = ""
  /\ gstate = "CONNECTING"
  /\ GroupEvent(Fail(GroupNow, AuthFailedMsg))

\* updated(path): the child watch of the group znode fired; the cache is
\* refreshed and the watches are updated (group.hpp:165, 174-178).  The
\* event is on its way when the children differ from the cache, or from
\* what a pending watch expects (the cache was refreshed by a watch() call
\* in between, which updates no pending watch).
Updated ==
  /\ error = ""
  /\ gstate = "CONNECTED"
  /\ \/ ~memberships.valid
     \/ memberships.set # znodes
     \/ \E i \in DOMAIN pendingWatches :
          WatchFires(pendingWatches[i].e, znodes)
  /\ GroupEvent(Update(Cache(GroupNow)))

\* ------------------------------------------------- the coordination service
\* Once the group is terminal it never reads the service again, so the
\* service is followed only while the group has no error.

\* A member of another session joins the group.
OtherJoins ==
  /\ error = ""
  /\ nextSeq <= MaxSeq
  /\ GroupEvent([GroupNow EXCEPT !.znodes = znodes \cup {nextSeq},
                                 !.nextSeq = nextSeq + 1])

\* A znode is deleted from outside this group: a member of another session
\* leaves, or an operator deletes this group's own znode.
ZnodeDeleted ==
  /\ error = ""
  /\ \E q \in znodes :
       GroupEvent([GroupNow EXCEPT !.znodes = znodes \ {q},
                                   !.mine = mine \ {q}])

\* ------------------------------------------------------------------ Next
Next ==
  \/ HandleContend \/ HandleWithdraw \/ HandleCancel \/ HandleCancelled
  \/ HandleJoined \/ HandleWatched
  \/ CallContend \/ CallWithdraw \/ Destroy
  \/ Connected \/ Reconnecting \/ Expired \/ Timedout \/ NonRetryable
  \/ Updated \/ OtherJoins \/ ZnodeDeleted

Spec == Init /\ [][Next]_vars

\* ---------------------------------------- ZooKeeperMasterContenderProcess
\* The LeaderContender that contend() creates: no slot assigned, nothing
\* handed to a client yet, a candidacy of its own.
newLeaderContender(x) ==
  [x EXCEPT !.contending = "None", !.watching = "None",
            !.withdrawing = "None", !.contendingFut = Pending,
            !.watchingFut = Pending, !.withdrawingFut = Pending,
            !.cancelDeferred = FALSE, !.withdrawRets = <<>>,
            !.joinsIssued = 0, !.cancelsIssued = <<>>,
            !.g.cand = PendingM]

\* A contend() that keeps the LeaderContender it has and contends through it
\* again.
MasterContendThroughSameContender ==
  /\ ~aborted
  /\ contendCalls + detectCalls < MaxRequests
  /\ Commit(ContenderNow, mailbox, <<Msg("contend")>>)
  /\ contendCalls' = contendCalls + 1
  /\ UNCHANGED <<terminated, withdrawCalls, detectCalls, epoch,
                 lostCandidacy, svars, fvars, mvars>>

\* ZooKeeperMasterContenderProcess::contend() (master/contender.cpp:192-203):
\* the previous LeaderContender, if any, is deleted, which finalizes it
\* (contender.cpp:84-115, 280-285); a new one is created on the same group
\* and its contend() is dispatched to it.  The futures of the previous
\* contender are left to whoever holds them.
MasterContend ==
  /\ ~aborted
  /\ contendCalls + detectCalls < MaxRequests
  /\ Commit(newLeaderContender(IF contendCalls = 0 THEN ContenderNow
                               ELSE finalize(ContenderNow)),
            <<>>, <<Msg("contend")>>)
  /\ epoch' = IF contendCalls = 0 THEN epoch ELSE epoch + 1
  /\ lostCandidacy' = IF contendCalls = 0 THEN lostCandidacy
                      ELSE finalize(ContenderNow).watchingFut
  /\ contendCalls' = contendCalls + 1
  /\ UNCHANGED <<terminated, withdrawCalls, detectCalls, svars, fvars, mvars>>

\* ------------------------------------------------- LeaderDetectorProcess
\* The detector's fields, the result its callers were last handed, and the
\* group it holds a pointer to, as one record.
DetectorNow ==
  [leader |-> leader, promises |-> promises, detected |-> detected,
   g |-> [GroupNow EXCEPT !.caller = DetectorClient]]

\* The election: the leader is the member with the lowest sequence, None
\* (0) in an empty group.
Elect(S) == IF S = {} THEN 0 ELSE CHOOSE q \in S : \A r \in S : q <= r

\* Option<Membership> as a result.
LeaderResult(q) == IF q = 0 THEN NoLeader ELSE SomeLeader(q)

\* Every pending detect() promise is resolved with the result v.
resolveDetects(d, v) ==
  [d EXCEPT !.promises = 0,
            !.detected = IF d.promises > 0 THEN v ELSE d.detected]

\* group->watch(expected), with watched as the callback.
detectorWatch(d, expected) == [d EXCEPT !.g = Watch(d.g, expected)]

\* detect(previous): answered at once when the leader the detector knows
\* differs from previous, otherwise with a promise that the next change of
\* the leader resolves.
detect(d, previous) ==
  IF d.leader # previous
  THEN [d EXCEPT !.detected = LeaderResult(d.leader)]
  ELSE [d EXCEPT !.promises = d.promises + 1]

\* A watched callback that reports the elected leader but keeps the leader
\* the detector had.
detectorWatchedKeepingLeader(d, r, S) ==
  IF r.st = "failed"
  THEN detectorWatch(resolveDetects([d EXCEPT !.leader = 0],
                                    ErrorResult(r.msg)), {})
  ELSE detectorWatch(resolveDetects(d, LeaderResult(Elect(S))), S)

\* A watched callback that elects the member with the highest sequence.
detectorWatchedElectingLast(d, r, S) ==
  LET last == IF S = {} THEN 0 ELSE CHOOSE q \in S : \A p \in S : p <= q
  IN IF r.st = "failed"
     THEN detectorWatch(resolveDetects([d EXCEPT !.leader = 0],
                                       ErrorResult(r.msg)), {})
     ELSE detectorWatch(IF last # d.leader
                        THEN resolveDetects([d EXCEPT !.leader = last],
                                            LeaderResult(last))
                        ELSE d, S)

\* watched(memberships): a failed watch resolves every pending detect()
\* with the error, the leader becomes None and the detector starts over
\* with watch({}); a snapshot S elects a leader, a leader other than the one
\* the detector had resolves every pending detect() with it, and the
\* detector watches for a change of S.
detectorWatched(d, r, S) ==
  IF r.st = "failed"
  THEN detectorWatch(resolveDetects([d EXCEPT !.leader = 0],
                                    ErrorResult(r.msg)), {})
  ELSE detectorWatch(IF Elect(S) # d.leader
                     THEN resolveDetects([d EXCEPT !.leader = Elect(S)],
                                         LeaderResult(Elect(S)))
                     ELSE d, S)

\* The record d becomes the next state; mb is the detector's queue.
CommitDetector(d, mb) ==
  /\ leader' = d.leader
  /\ promises' = d.promises
  /\ detected' = d.detected
  /\ CommitGroup(d.g)
  /\ dmailbox' = mb \o EventsFor(DetectorClient, d.g.out)
  /\ mailbox' = Deliver(mailbox, d.g.out)
  /\ cancelOutcome' = cancelOutcome \o CancelOutcomes(Deliver(<<>>, d.g.out))
  /\ UNCHANGED <<contending, watching, withdrawing, contendingFut,
                 watchingFut, withdrawingFut, cancelDeferred,
                 terminated, aborted, contendCalls,
                 withdrawCalls, withdrawRets, joinsIssued,
                 cancelsIssued, epoch, lostCandidacy, svars,
                 fvars, mvars>>

\* The detector handles the watched callback at the head of its queue.
HandlesWatched ==
  /\ ~aborted
  /\ dmailbox # <<>>

WatchedHandler ==
  detectorWatched(DetectorNow, Head(dmailbox).r, Head(dmailbox).s)

HandleDetectorWatched ==
  /\ HandlesWatched
  /\ CommitDetector(WatchedHandler, Tail(dmailbox))
  /\ UNCHANGED detectCalls

\* LeaderDetector::detect(previous): dispatch(process, &detect, previous).
\* The call is followed from the point at which the detector handles it.
Detect ==
  /\ ~aborted
  /\ contendCalls + detectCalls < MaxRequests
  /\ \E previous \in 0..MaxSeq :
       CommitDetector(detect(DetectorNow, previous), dmailbox)
  /\ detectCalls' = detectCalls + 1

\* The detector's initialize() has called watch({}).
InitD == InitWith(<<PendingWatch(DetectorClient, {})>>)

NextD ==
  \/ MasterContend \/ HandleContend \/ HandleJoined \/ HandleWatched
  \/ Detect \/ HandleDetectorWatched
  \/ Connected \/ Reconnecting \/ Expired \/ Timedout
  \/ Updated \/ OtherJoins \/ ZnodeDeleted

SpecD == InitD /\ [][NextD]_vars

\* ------------------------------------------------- the Group by itself
\* A client that calls join, cancel and watch on the Group directly and
\* holds the memberships it was handed, with their cancelled futures.  The
\* futures the calls return are what the operators above put in out.

\* The memberships a client can name: those of the sequences given out.
Known == 1..(nextSeq - 1)

\* The group, the service and the cancelled promises become those of g.
GroupStep(g) ==
  /\ CommitSession(g)
  /\ cancelledP' = g.cp
  /\ UNCHANGED <<contending, watching, withdrawing, contendingFut,
                 watchingFut, withdrawingFut, cancelDeferred, mailbox,
                 terminated, aborted, hvars, dvars, svars, fvars, mvars>>

\* Group::join(data) (group.hpp:112).
GroupJoin ==
  /\ nextSeq + Len(pendingJoins) <= MaxSeq
  /\ GroupStep(Join(GroupNow))

\* Group::cancel(membership) (group.hpp:114-116).
GroupCancel ==
  /\ Len(pendingCancels) + Len(pendingWatches) < MaxPending
  /\ \E q \in Known : GroupStep(Cancel(GroupNow, q))

\* What a client expects when it watches: nothing (the default argument),
\* or the members it knows of, from the last snapshot and from its own
\* joins and cancels since.
Expectations == {{}, owned \cup unowned}

\* Group::watch(expected) (group.hpp:122-125).
GroupWatch ==
  /\ Len(pendingCancels) + Len(pendingWatches) < MaxPending
  /\ \E expected \in Expectations : GroupStep(Watch(GroupNow, expected))

\* connected(reconnect) (group.hpp:162).
GroupConnected ==
  /\ error = ""
  /\ gstate # "CONNECTED"
  /\ nextSeq + Len(pendingJoins) - 1 <= MaxSeq
  /\ GroupStep(Sync([GroupNow EXCEPT !.gstate = "CONNECTED",
                                     !.timer = "none"]))

\* reconnecting() (group.hpp:163).
GroupReconnecting ==
  /\ error = ""
  /\ gstate = "CONNECTED"
  /\ GroupStep([GroupNow EXCEPT !.gstate = "DISCONNECTED",
                                !.timer = "armed", !.mem = NoneCache])

\* expired() (group.hpp:164), the service having removed the session's
\* znodes.
GroupExpired ==
  /\ error = ""
  /\ GroupStep(Expire([GroupNow EXCEPT !.znodes = znodes \ mine]))

\* timedout(sessionId) (group.hpp:193): the timer's callback runs, be the
\* timer still armed or not.
GroupTimedout ==
  /\ error = ""
  /\ GroupStep(timedout(GroupNow))

\* A non-retryable error (group.hpp:195).
GroupFailed ==
  /\ error = ""
  /\ gstate = "CONNECTING"
  /\ GroupStep(Fail(GroupNow, AuthFailedMsg))

\* updated(path) (group.hpp:165): the cache is refreshed and the watches
\* are updated.
GroupUpdated ==
  /\ error = ""
  /\ gstate = "CONNECTED"
  /\ \/ ~memberships.valid
     \/ memberships.set # znodes
     \/ \E i \in DOMAIN pendingWatches :
          WatchFires(pendingWatches[i].e, znodes)
  /\ GroupStep(Update(Cache(GroupNow)))

\* A member of another session joins the group.
MemberJoins ==
  /\ error = ""
  /\ nextSeq <= MaxSeq
  /\ GroupStep([GroupNow EXCEPT !.znodes = znodes \cup {nextSeq},
                                !.nextSeq = nextSeq + 1])

\* A znode is deleted from outside this group.
MemberLeaves ==
  /\ error = ""
  /\ \E q \in znodes :
       GroupStep([GroupNow EXCEPT !.znodes = znodes \ {q},
                                  !.mine = mine \ {q}])

NextG ==
  \/ GroupJoin \/ GroupCancel \/ GroupWatch
  \/ GroupConnected \/ GroupReconnecting \/ GroupExpired \/ GroupTimedout
  \/ GroupFailed \/ GroupUpdated \/ MemberJoins \/ MemberLeaves

SpecG == Init /\ [][NextG]_vars

\* =================================================================== claims
\* The contender process is running: neither terminated nor aborted.
Live == ~terminated /\ ~aborted

\* An event of type t is waiting in the contender's queue.
Queued(t) == \E i \in DOMAIN mailbox : mailbox[i].t = t

\* ----------------------------------------------------------------------- C1
\* C1 (as stated): whenever the group join has resolved successfully, the
\* outer future becomes ready, whatever the interleaving with withdraw():
\* once the joined callback has been handled by a running contender, the
\* outer future is ready.
C1_OuterReadyInEveryInterleaving ==
  (Live /\ candidacy.st = "ready" /\ ~Queued("joined"))
    => contendingFut.st = "ready"

\* C1 (amended): when the join has resolved successfully and joined() runs
\* before any withdraw() was handled, joined() sets the outer future to the
\* inner future, which is pending, and the outer future stays so; when a
\* withdraw() was handled first, joined() changes nothing and the outer
\* future is not set.
C1_OuterReadyUnlessWithdrawn ==
  /\ (Handles("joined") /\ candidacy.st = "ready") =>
       LET y == Handler(Head(mailbox))
       IN IF withdrawing = "None"
          THEN /\ y.contendingFut = Ready("watching")
               /\ y.watching = "Some" /\ y.watchingFut = Pending
               /\ ~y.aborted
          ELSE y = ContenderNow
  /\ (Live /\ candidacy.st = "ready" /\ ~Queued("joined")
        /\ withdrawing = "None")
       => contendingFut = Ready("watching")
  /\ (Live /\ contendingFut.st = "ready")
       => contendingFut = Ready("watching") /\ watching = "Some"

\* The join succeeded, the outer future carries the inner one, and the
\* client has called withdraw() on the running contender.
C1_Witness ==
  /\ Live /\ candidacy.st = "ready"
  /\ contendingFut = Ready("watching")
  /\ withdrawing = "Some"

\* ----------------------------------------------------------------------- C2
\* C2: for a running contender whose outer future is ready and whose
\* membership is gone from the group, the inner future is ready once the
\* group and the contender have nothing left to do: the group has cached
\* the current members, holds no pending watch or cancel, and the
\* contender's queue is empty.
C2_InnerReadyOnceRemoved ==
  (/\ Live /\ contendingFut.st = "ready"
   /\ candidacy.seq \notin znodes
   /\ error = "" /\ gstate = "CONNECTED"
   /\ memberships = SomeCache(znodes)
   /\ pendingWatches = <<>> /\ pendingCancels = <<>>
   /\ mailbox = <<>>)
    => watchingFut.st = "ready"

WithdrawFuture(i) ==
  IF withdrawRets[i].kind = "promise"
  THEN withdrawingFut
  ELSE Ready(withdrawRets[i].val)

\* ----------------------------------------------------------------------- C4
\* C4: every withdraw() after the first returns the same future as the
\* first: at any time the two are both pending, or resolved alike.
C4_WithdrawIdempotent ==
  \A i \in DOMAIN withdrawRets : WithdrawFuture(i) = WithdrawFuture(1)

\* ----------------------------------------------------------------------- C5
\* C5: a withdraw() that the client called after the group join had failed
\* returns a future that is ready with false, and issues no group cancel.
C5_WithdrawAfterFailedJoin ==
  (Handles("withdraw") /\ Head(mailbox).r.st = "failed") =>
    LET y == Handler(Head(mailbox))
    IN /\ y.withdrawRets = Append(withdrawRets, RetValue("false"))
       /\ y.cancelsIssued = cancelsIssued

\* ----------------------------------------------------------------------- C6
\* C6: no group cancel is issued while the join is pending, and every
\* cancel issued is for the membership the join obtained; a cancel deferred
\* by a withdraw() that came while the join was pending is, once the join
\* has succeeded, queued or issued, the handler issues it for the obtained
\* membership, and the withdraw() future, once the cancel's outcome has been
\* handled, is that outcome.
C6_DeferredCancel ==
  /\ cancelsIssued # <<>> =>
       /\ candidacy.st = "ready"
       /\ \A i \in DOMAIN cancelsIssued : cancelsIssued[i] = candidacy.seq
  /\ (cancelDeferred /\ candidacy.st = "pending") => cancelsIssued = <<>>
  /\ (Live /\ cancelDeferred /\ candidacy.st = "ready") =>
       \/ Queued("cancel") /\ cancelsIssued = <<>>
       \/ cancelsIssued = <<candidacy.seq>>
  /\ (Handles("cancel") /\ candidacy.st = "ready") =>
       Handler(Head(mailbox)).cancelsIssued =
         Append(cancelsIssued, candidacy.seq)
  /\ (Live /\ cancelDeferred /\ cancelOutcome # <<>>) =>
       IF Queued("cancelled")
       THEN withdrawingFut.st = "pending"
       ELSE withdrawingFut = cancelOutcome[1]

\* withdraw() came while the join was pending; the join succeeded, the
\* cancel was issued for the obtained membership and the withdraw() future
\* took its outcome, true.
C6_Witness ==
  /\ Live /\ cancelDeferred
  /\ candidacy.st = "ready" /\ cancelsIssued = <<candidacy.seq>>
  /\ withdrawRets # <<>> /\ WithdrawFuture(1) = Ready("true")

\* ----------------------------------------------------------------------- C7
\* C7: the future of the first withdraw() is ready with true only if a
\* cancel for the contender's own membership was issued and resolved to
\* true; once a cancel was issued by withdraw(), the future, when resolved,
\* is exactly the outcome of that cancel, and it is resolved as soon as the
\* outcome has been handled.
C7_WithdrawTakesCancelOutcome ==
  /\ (withdrawRets # <<>> /\ WithdrawFuture(1) = Ready("true")) =>
       /\ cancelsIssued # <<>> /\ cancelsIssued[1] = candidacy.seq
       /\ candidacy.st = "ready"
       /\ cancelOutcome # <<>> /\ cancelOutcome[1] = Ready("true")
  /\ (withdrawing = "Some" /\ cancelsIssued # <<>>) =>
       /\ withdrawRets # <<>> /\ withdrawRets[1] = RetPromise
       /\ withdrawingFut.st # "pending" =>
            cancelOutcome # <<>> /\ withdrawingFut = cancelOutcome[1]
       /\ (Live /\ cancelOutcome # <<>> /\ ~Queued("cancelled")) =>
            withdrawingFut = cancelOutcome[1]

\* A cancel was issued and the group answered false (the znode was already
\* gone): the future of the first withdraw() is ready with false.
C7_Witness ==
  /\ withdrawing = "Some" /\ cancelsIssued # <<>>
  /\ withdrawRets # <<>> /\ WithdrawFuture(1) = Ready("false")

\* ----------------------------------------------------------------------- C8
\* C8: when joined() finds the join failed, or watched() is handed a failed
\* watch, with message m, every assigned slot that was pending is failed
\* with m by that handler and none is left pending.
C8_FailureReachesEverySlot ==
  (Live /\ mailbox # <<>>) =>
    LET e == Head(mailbox)
        y == Handler(e)
        m == IF e.t = "joined" THEN candidacy.msg ELSE e.r.msg
    IN (\/ e.t = "joined" /\ candidacy.st = "failed"
        \/ e.t = "watched" /\ e.r.st = "failed")
         => /\ contending = "Some" =>
                 y.contendingFut = FailFut(contendingFut, m)
                   /\ y.contendingFut.st # "pending"
            /\ watching = "Some" =>
                 y.watchingFut = FailFut(watchingFut, m)
                   /\ y.watchingFut.st # "pending"
            /\ withdrawing = "Some" =>
                 y.withdrawingFut = FailFut(withdrawingFut, m)
                   /\ y.withdrawingFut.st # "pending"

\* ----------------------------------------------------------------------- C9
\* C9: the contender issues at most one group join; a contend() handled
\* when the contender has already contended fails its CHECK, and neither a
\* slot, nor a future, nor the group, nor the service is changed by it.
C9_AtMostOneJoin ==
  /\ joinsIssued <= 1
  /\ (Handles("contend") /\ contending = "Some") =>
       LET y == Handler(Head(mailbox))
       IN y.aborted /\ [y EXCEPT !.aborted = FALSE] = ContenderNow

\* A second contend() was handled: the program aborted with one join issued.
C9_Witness == aborted /\ contendCalls >= 2 /\ joinsIssued = 1

\* ---------------------------------------------------------------------- C10
\* C10: a contender whose outer future was ready and that was destroyed
\* without any withdraw() has its inner future resolved once its
\* membership is gone from the service (by the session's expiry at the
\* latest) and the group has nothing pending.
C10_InnerResolvesAfterDestruction ==
  (terminated /\ contendingFut.st = "ready" /\ withdrawCalls = 0
     /\ candidacy.seq \notin znodes
     /\ pendingWatches = <<>> /\ pendingCancels = <<>>)
    => watchingFut.st # "pending"

\* ------------------------------------------- StandaloneMasterContender
\* The contender's fields and the futures its callers hold, as one record.
StandaloneNow ==
  [initialized |-> initialized, promise |-> promise, inners |-> inners,
   contended |-> contended, deleted |-> deleted,
   checkFailed |-> checkFailed]

\* if (promise != NULL) { promise->set(Nothing()); delete promise; }
\* (master/contender.cpp:99-102, 119-123).
withdrawPrevious(c) ==
  IF c.promise # 0
  THEN [c EXCEPT !.inners[c.promise] = SetFut(@, "nothing")]
  ELSE c

\* initialize(master) (master/contender.cpp:106-113).
standaloneInitialize(c) == [c EXCEPT !.initialized = TRUE]

\* A contend() that makes the new promise and leaves the previous one as it
\* is.
standaloneContendLeavingPrevious(c) ==
  IF ~c.initialized THEN [c EXCEPT !.checkFailed = TRUE]
  ELSE [c EXCEPT !.inners = Append(c.inners, Pending),
                 !.promise = Len(c.inners) + 1,
                 !.contended = Append(c.contended,
                                      Ready(Len(c.inners) + 1))]

\* contend() (master/contender.cpp:115-130): CHECK(initialized); the
\* previous promise, if any, is set and deleted; a new promise is made and
\* its future returned, which makes the returned Future<Future<Nothing>>
\* ready with it.
standaloneContend(c) ==
  IF ~c.initialized THEN [c EXCEPT !.checkFailed = TRUE]
  ELSE LET w == withdrawPrevious(c)
       IN [w EXCEPT !.inners = Append(w.inners, Pending),
                    !.promise = Len(w.inners) + 1,
                    !.contended = Append(w.contended,
                                         Ready(Len(w.inners) + 1))]

\* ~StandaloneMasterContender (master/contender.cpp:97-103).
standaloneDelete(c) == [withdrawPrevious(c) EXCEPT !.deleted = TRUE]

\* The inner futures handed out that are pending.
PendingInners == {i \in DOMAIN inners : inners[i].st = "pending"}

\* ------------------------------------------- StandaloneMasterDetector
\* The identities a leader can have.
Identities == Seqs

\* The detector's leader and the detect() calls made on it, as one record.
StandaloneDetectorNow == [appointed |-> appointed, detects |-> detects]

\* A detect(previous) call: whether a promise was made for it, and the
\* result its future holds (NoResult while pending).
DetectCall(previous, promised, result) ==
  [previous |-> previous, promised |-> promised, result |-> result]

\* detect(previous): answered at once when the leader differs from
\* previous, otherwise with a promise.
standaloneDetect(d, previous) ==
  [d EXCEPT !.detects =
     Append(d.detects,
            IF d.appointed # previous
            THEN DetectCall(previous, FALSE, LeaderResult(d.appointed))
            ELSE DetectCall(previous, TRUE, NoResult))]

\* An appoint() that sets the leader and resolves the oldest pending
\* detect() only.
appointResolvingOne(d, identity) ==
  LET waiting == {i \in DOMAIN d.detects : d.detects[i].result = NoResult}
      first == IF waiting = {} THEN 0
               ELSE CHOOSE i \in waiting : \A j \in waiting : i <= j
  IN [d EXCEPT !.appointed = identity,
               !.detects = [i \in DOMAIN d.detects |->
                              IF i = first
                              THEN [d.detects[i] EXCEPT
                                      !.result = LeaderResult(identity)]
                              ELSE d.detects[i]]]

\* appoint(identity): the leader is set and every pending detect() promise
\* is resolved with it.
appoint(d, identity) ==
  [d EXCEPT !.appointed = identity,
            !.detects = [i \in DOMAIN d.detects |->
                           IF d.detects[i].result = NoResult
                           THEN [d.detects[i] EXCEPT
                                   !.result = LeaderResult(identity)]
                           ELSE d.detects[i]]]

\* ---------------------------------------------- the standalone master
CommitStandalone(c) ==
  /\ initialized' = c.initialized
  /\ promise' = c.promise
  /\ inners' = c.inners
  /\ contended' = c.contended
  /\ deleted' = c.deleted
  /\ checkFailed' = c.checkFailed
  /\ UNCHANGED <<appointed, detects>>
  /\ UNCHANGED <<cvars, hvars, gvars, zvars, dvars, fvars, mvars>>

CommitStandaloneDetector(d) ==
  /\ appointed' = d.appointed
  /\ detects' = d.detects
  /\ UNCHANGED <<initialized, promise, inners, contended, deleted,
                 checkFailed>>
  /\ UNCHANGED <<cvars, hvars, gvars, zvars, dvars, fvars, mvars>>

\* The program is running and the contender has not been deleted.
StandaloneLive == ~deleted /\ ~checkFailed

StandaloneInitialize ==
  /\ StandaloneLive
  /\ CommitStandalone(standaloneInitialize(StandaloneNow))

StandaloneContend ==
  /\ StandaloneLive
  /\ Len(inners) < MaxRequests
  /\ CommitStandalone(standaloneContend(StandaloneNow))

StandaloneDelete ==
  /\ StandaloneLive
  /\ CommitStandalone(standaloneDelete(StandaloneNow))

StandaloneDetect ==
  /\ ~checkFailed
  /\ Len(detects) < MaxDetects
  /\ \E previous \in {0} \cup Identities :
       CommitStandaloneDetector(standaloneDetect(StandaloneDetectorNow,
                                                 previous))

Appoint ==
  /\ ~checkFailed
  /\ \E identity \in Identities :
       CommitStandaloneDetector(appoint(StandaloneDetectorNow, identity))

InitS == InitWith(<<>>)

NextS ==
  \/ StandaloneInitialize \/ StandaloneContend \/ StandaloneDelete
  \/ StandaloneDetect \/ Appoint

SpecS == InitS /\ [][NextS]_vars

\* --------------------------------------------- MasterContender::create
\* A string is a sequence of pieces: the two prefixes, the slash, a plain
\* character and a whitespace character.
Chars == {"zk://", "file://", "/", "a", " "}
Strings == UNION {[1..n -> Chars] : n \in 0..MaxLen}

\* strings::startsWith for the two prefixes create() looks for.
startsWith(s, prefix) == s # <<>> /\ Head(s) = prefix

\* strings::trim: the whitespace at both ends is removed.
RECURSIVE ltrim(_)
ltrim(s) == IF s # <<>> /\ Head(s) = " " THEN ltrim(Tail(s)) ELSE s

RECURSIVE rtrim(_)
rtrim(s) ==
  IF s # <<>> /\ s[Len(s)] = " " THEN rtrim(SubSeq(s, 1, Len(s) - 1))
  ELSE s

trim(s) == rtrim(ltrim(s))

\* zookeeper::URL::parse of a string that starts with zk://: the servers
\* are what precedes the first slash, the path is the rest, "/" when there
\* is none.  The parse fails when there are no servers or when a piece
\* other than a plain character or a slash follows the prefix.
ParseErrorMsg == "Expecting 'zk://' at the beginning of the URL"
parse(s) ==
  LET rest == Tail(s)
      slashes == {i \in DOMAIN rest : rest[i] = "/"}
      slash == IF slashes = {} THEN Len(rest) + 1
               ELSE CHOOSE i \in slashes : \A j \in slashes : i <= j
      servers == SubSeq(rest, 1, slash - 1)
      path == IF slashes = {} THEN <<"/">>
              ELSE SubSeq(rest, slash, Len(rest))
  IN IF servers = <<>> \/ \E i \in DOMAIN rest : rest[i] \notin {"a", "/"}
     THEN [ok |-> FALSE, servers |-> <<>>, path |-> <<>>]
     ELSE [ok |-> TRUE, servers |-> servers, path |-> path]

\* os::read(path).
osRead(fs, path) == IF path \in DOMAIN fs THEN fs[path] ELSE Unreadable

\* The outcomes of create().
Standalone == [kind |-> "standalone", url |-> <<>>, msg |-> "", arg |-> <<>>]
ZooKeeper(s) == [kind |-> "zookeeper", url |-> s, msg |-> "", arg |-> <<>>]
Error(msg, arg) == [kind |-> "error", url |-> <<>>, msg |-> msg, arg |-> arg]
\* The recursion did not end: the stack is exhausted.
StackExhausted ==
  [kind |-> "crash", url |-> <<>>, msg |-> "", arg |-> <<>>]

ChrootMsg == "Expecting a (chroot) path for ZooKeeper ('/' is not supported)"
ReadFailedMsg == "Failed to read from file at"
ParseFailedMsg == "Failed to parse"

\* A create() that recurses on the contents of the file as they are.
RECURSIVE createWithoutTrim(_, _, _)
createWithoutTrim(s, fs, depth) ==
  IF s = <<>> THEN Standalone
  ELSE IF startsWith(s, "zk://")
  THEN IF ~parse(s).ok THEN Error(ParseErrorMsg, <<>>)
       ELSE IF parse(s).path = <<"/">> THEN Error(ChrootMsg, <<>>)
       ELSE ZooKeeper(Tail(s))
  ELSE IF startsWith(s, "file://")
  THEN IF ~osRead(fs, Tail(s)).ok THEN Error(ReadFailedMsg, Tail(s))
       ELSE IF depth = 0 THEN StackExhausted
       ELSE createWithoutTrim(osRead(fs, Tail(s)).data, fs, depth - 1)
  ELSE Error(ParseFailedMsg, s)

\* MasterContender::create(zk) (master/contender.cpp:66-91), with fs what
\* os::read gives and depth the calls the stack still has room for.
RECURSIVE create(_, _, _)
create(s, fs, depth) ==
  IF s = <<>> THEN Standalone
  ELSE IF startsWith(s, "zk://")
  THEN IF ~parse(s).ok THEN Error(ParseErrorMsg, <<>>)
       ELSE IF parse(s).path = <<"/">> THEN Error(ChrootMsg, <<>>)
       ELSE ZooKeeper(Tail(s))
  ELSE IF startsWith(s, "file://")
  THEN IF ~osRead(fs, Tail(s)).ok THEN Error(ReadFailedMsg, Tail(s))
       ELSE IF depth = 0 THEN StackExhausted
       ELSE create(trim(osRead(fs, Tail(s)).data), fs, depth - 1)
  ELSE Error(ParseFailedMsg, s)

\* What a file may hold: a good URL between whitespace, whitespace only,
\* the file:// string of either path, a URL with the path "/", and a
\* string that is none of the forms.
FileContents ==
  {<<" ", "zk://", "a", "/", "a", " ">>,
   <<" ">>,
   <<"file://", "a">>,
   <<"file://", "/", "a", " ">>,
   <<"zk://", "a", "/">>,
   <<"a", " ">>}

FileSystems == [Paths -> {Unreadable} \cup {Contents(s) : s \in FileContents}]

CallCreate ==
  /\ created = NotCreated
  /\ created' = create(zk, files, MaxDepth)
  /\ UNCHANGED <<zk, files>>
  /\ UNCHANGED <<cvars, hvars, gvars, zvars, dvars, svars, mvars>>

InitF ==
  /\ InitZooKeeper(<<>>) /\ InitStandalone /\ NoComparison
  /\ zk \in Strings
  /\ files \in FileSystems
  /\ created = NotCreated

NextF == CallCreate

SpecF == InitF /\ [][NextF]_vars

\* -------------------------------------------------- Group::Membership
Memberships ==
  {Membership(q, f) : q \in Seqs, f \in {"pending", "true", "false"}}

\* An operator == that also compares the cancelled futures.
eqWithCancelled(m, that) ==
  m.sequence = that.sequence /\ m.cancelled = that.cancelled

\* operator ==, !=, <, <=, >, >= and id() (group.hpp:39-72).
eq(m, that) == m.sequence = that.sequence
ne(m, that) == m.sequence # that.sequence
lt(m, that) == m.sequence < that.sequence
le(m, that) == m.sequence <= that.sequence
gt(m, that) == m.sequence > that.sequence
ge(m, that) == m.sequence >= that.sequence
id(m) == m.sequence

Compare ==
  /\ ~compared.done
  /\ compared' = [done |-> TRUE, eq |-> eq(lhs, rhs), ne |-> ne(lhs, rhs),
                  lt |-> lt(lhs, rhs), le |-> le(lhs, rhs),
                  gt |-> gt(lhs, rhs), ge |-> ge(lhs, rhs)]
  /\ UNCHANGED <<lhs, rhs, third>>
  /\ UNCHANGED <<cvars, hvars, gvars, zvars, dvars, svars, fvars>>

InitM ==
  /\ InitZooKeeper(<<>>) /\ InitStandalone /\ NoCreate
  /\ lhs \in Memberships /\ rhs \in Memberships /\ third \in Memberships
  /\ compared = NotCompared

NextM == Compare

SpecM == InitM /\ [][NextM]_vars

\* ================================== claims about sessions and detection
\* The events queued for the contender that is running.
ContenderIdle == mailbox = <<>>

\* The group is connected, its cache is the current set of members, and
\* no watch is pending that this set resolves.
GroupSettled ==
  /\ gstate = "CONNECTED" /\ memberships = SomeCache(znodes)
  /\ \A i \in DOMAIN pendingWatches : ~WatchFires(pendingWatches[i].e, znodes)

\* The failed watches among the callbacks cbs that are for client c.
WatchFailuresFor(c, cbs) ==
  SelectSeq(EventsFor(c, cbs),
            LAMBDA m : m.t = "watched" /\ m.r.st = "failed")

\* The watches of client c that are pending in the group.
WatchesOf(c) == {i \in DOMAIN pendingWatches : pendingWatches[i].c = c}

\* What expired() makes of the group when the service expires its session.
AfterExpiry == Expire([GroupNow EXCEPT !.znodes = znodes \ mine])

C11_Witness ==
  /\ Live /\ contendingFut.st = "ready" /\ watchingFut.st = "pending"
  /\ gstate = "CONNECTING" /\ candidacy.seq \notin znodes
  /\ \E i \in WatchesOf(epoch) : candidacy.seq \in pendingWatches[i].e
  /\ promises > 0 /\ leader = candidacy.seq

C13_RetryAfterTimeout ==
  /\ timer = "armed" =>
       LET g == TimeOut(GroupNow)
       IN /\ g.error = "" /\ g.gstate = "CONNECTING"
          /\ Join(g).pj = <<epoch>> /\ Join(g).out = g.out
          /\ Watch(g, {}).pw = <<PendingWatch(epoch, {})>>
          /\ Watch(g, {}).out = g.out
  /\ ~aborted
  /\ (\E i \in DOMAIN pendingJoins : pendingJoins[i] = epoch)
       => /\ contending = "Some" /\ contendingFut.st = "pending"
          /\ candidacy.st = "pending" /\ gstate # "CONNECTED"
  /\ (contending = "Some" /\ gstate = "CONNECTED" /\ ContenderIdle
        /\ candidacy.st # "failed")
       => contendingFut = Ready("watching")
  /\ contendingFut.st = "failed" =>
       contendingFut.msg = SessionExpiredMsg /\ candidacy.st = "failed"
  /\ (promises > 0 /\ gstate # "CONNECTED" /\ dmailbox = <<>>)
       => WatchesOf(DetectorClient) # {}
  /\ (promises > 0 /\ GroupSettled /\ dmailbox = <<>>)
       => leader = Elect(znodes) /\ WatchesOf(DetectorClient) # {}

\* The timeout has failed the inner future of the first contender and
\* answered a detect() with an error; the contend() made after that is
\* pending, its join queued in the group, which is not connected.
C13_Witness ==
  /\ lostCandidacy = Failed(SessionExpiredMsg)
  /\ detected = ErrorResult(SessionExpiredMsg)
  /\ epoch = 2 /\ contending = "Some" /\ contendingFut.st = "pending"
  /\ pendingJoins = <<epoch>> /\ gstate = "CONNECTING"

\* ---------------------------------------------------------------------- C14
\* The cancel failures among the callbacks cbs that are for client c.
CancelFailuresFor(c, cbs) ==
  SelectSeq(EventsFor(c, cbs),
            LAMBDA m : m.t = "cancelled" /\ m.r.st = "failed")

\* The group answers a join, a cancel of any membership and a watch of any
\* set with a failure carrying its error, and neither queues the operation
\* nor touches the service.
FailsEveryOperation ==
  /\ LET g == Join(GroupNow)
     IN g.cand = FailedM(error) /\ g.pj = <<>> /\ g.znodes = znodes
          /\ g.nextSeq = nextSeq
  /\ \A q \in Seqs :
       LET g == Cancel(GroupNow, q)
       IN g.out = <<Callback(epoch, CancelledMsg(Failed(error)))>>
            /\ g.pc = <<>> /\ g.znodes = znodes
  /\ \A e \in SUBSET Seqs :
       LET g == Watch(GroupNow, e)
       IN g.out = <<Callback(epoch, WatchedFailed(error))>>
            /\ g.pw = <<>> /\ g.mem = memberships

C15_PendingWhileLeaderStays ==
  /\ LET y == detect(DetectorNow, leader)
     IN y.promises = promises + 1 /\ y.detected = detected
          /\ y.leader = leader
  /\ (HandlesWatched /\ Head(dmailbox).r.st = "ready"
        /\ Elect(Head(dmailbox).s) = leader)
       => LET y == WatchedHandler
          IN y.promises = promises /\ y.detected = detected
               /\ y.leader = leader
  /\ LET g == AfterExpiry
     IN /\ EventsFor(DetectorClient, g.out) = <<>>
        /\ \A i \in WatchesOf(DetectorClient) : g.pw[i] = pendingWatches[i]
  /\ (gstate # "CONNECTED" /\ error = "")
       => LET g == Sync([GroupNow EXCEPT !.gstate = "CONNECTED",
                                         !.timer = "none"])
          IN \A i \in DOMAIN g.out :
               (g.out[i].c = DetectorClient /\ promises > 0
                  /\ Elect(g.out[i].m.s) = leader)
                 => detectorWatched(DetectorNow, g.out[i].m.r,
                                    g.out[i].m.s).promises = promises

\* The detector's own session has expired while a detect() was waiting on
\* the leader, a member of another session that is still the lowest: the
\* group is connecting again and the detector's watch is pending.
C15_Witness ==
  /\ promises > 0 /\ leader # 0 /\ leader = Elect(znodes)
  /\ gstate = "CONNECTING" /\ mine = {} /\ contendCalls = 0
  /\ \E i \in WatchesOf(DetectorClient) : leader \in pendingWatches[i].e

\* ---------------------------------------------------------------------- C16
\* C16: the leader the detector elects from a snapshot is its member with
\* the lowest sequence, and that is what it reports: a detect(previous)
\* with another previous is answered with the leader the detector knows,
\* watched() resolves the pending detect() calls with the lowest member of
\* the snapshot, and with the group connected, its cache fresh and nothing
\* queued for the detector, the leader the detector knows is the lowest
\* member the service holds.
C16_LowestMemberLeads ==
  /\ \A previous \in 0..MaxSeq :
       previous # leader =>
         LET y == detect(DetectorNow, previous)
         IN y.detected = LeaderResult(leader) /\ y.promises = promises
  /\ (HandlesWatched /\ Head(dmailbox).r.st = "ready")
       => LET S == Head(dmailbox).s
              y == WatchedHandler
          IN /\ y.leader = Elect(S)
             /\ S # {} => y.leader \in S /\ \A q \in S : y.leader <= q
             /\ (promises > 0 /\ Elect(S) # leader)
                  => y.detected = LeaderResult(Elect(S))
  /\ (GroupSettled /\ dmailbox = <<>>) => leader = Elect(znodes)
  /\ leader # 0 => leader \in Seqs

\* The detector knows member 1 as the leader and a detect(1) is waiting;
\* member 1 is gone, and watched() is about to answer the detect() with
\* member 2 from the snapshot at the head of the detector's queue.
C16_Witness ==
  /\ promises > 0 /\ leader = 1 /\ znodes = {2}
  /\ HandlesWatched /\ Head(dmailbox).s = {2}
  /\ WatchedHandler.detected = SomeLeader(2)

\* ============================================ claims about the other objects
\* ---------------------------------------------------------------------- C17
\* C17: contend() on an initialized standalone contender fails no CHECK and
\* returns an outer future that is ready at once and carries a new inner
\* future, which is pending; every inner future handed out before is ready
\* after it, as it is after the destruction of the contender.  An inner
\* future that is pending is the one handed out last, by a contender that
\* is not destroyed, and the one handed out last is pending as long as the
\* contender is not destroyed; so at most one is pending.  None ever fails.
C17_OneInnerPending ==
  /\ initialized =>
       LET y == standaloneContend(StandaloneNow)
           n == Len(y.contended)
       IN /\ ~y.checkFailed
          /\ n = Len(contended) + 1
          /\ y.contended[n] = Ready(Len(y.inners))
          /\ y.inners[Len(y.inners)] = Pending
          /\ Len(y.inners) = Len(inners) + 1
          /\ \A i \in DOMAIN inners : y.inners[i] = Ready("nothing")
  /\ \A i \in DOMAIN inners :
       standaloneDelete(StandaloneNow).inners[i] = Ready("nothing")
  /\ \A i \in PendingInners : i = promise /\ i = Len(inners) /\ ~deleted
  /\ (~deleted /\ inners # <<>>) => inners[Len(inners)] = Pending
  /\ Cardinality(PendingInners) <= 1
  /\ \A i \in DOMAIN inners : inners[i].st # "failed"
  /\ Len(contended) = Len(inners)
  /\ \A i \in DOMAIN contended : contended[i] = Ready(i)

\* contend() was called again: the first inner future is ready, the second
\* is pending.
C17_Witness ==
  /\ ~deleted /\ Len(inners) = 2
  /\ inners[1] = Ready("nothing") /\ inners[2] = Pending

\* ---------------------------------------------------------------------- C18
\* C18: while no leader has been appointed, every detect() made (previous
\* None) is pending, and one made now gets a promise; appoint(identity)
\* sets the leader and resolves every detect() that is pending with that
\* identity, leaving the resolved ones as they are; a detect() is pending
\* only on the leader the detector has.
C18_AppointResolvesPending ==
  /\ appointed = 0 =>
       /\ \A i \in DOMAIN detects :
            detects[i].previous = 0 =>
              detects[i].promised /\ detects[i].result = NoResult
       /\ LET y == standaloneDetect(StandaloneDetectorNow, 0)
          IN y.detects[Len(y.detects)] = DetectCall(0, TRUE, NoResult)
  /\ \A identity \in Identities :
       LET y == appoint(StandaloneDetectorNow, identity)
       IN /\ y.appointed = identity
          /\ Len(y.detects) = Len(detects)
          /\ \A i \in DOMAIN detects :
               IF detects[i].result = NoResult
               THEN y.detects[i] =
                      DetectCall(detects[i].previous, TRUE,
                                 SomeLeader(identity))
               ELSE y.detects[i] = detects[i]
  /\ \A i \in DOMAIN detects :
       /\ detects[i].result = NoResult =>
            detects[i].promised /\ detects[i].previous = appointed
       /\ detects[i].result.k # "error"

\* Two detect() calls were pending with no leader appointed; one appoint()
\* has resolved both with the identity.
C18_Witness ==
  /\ appointed # 0
  /\ \E i, j \in DOMAIN detects :
       /\ i # j
       /\ detects[i] = DetectCall(0, TRUE, SomeLeader(appointed))
       /\ detects[j] = DetectCall(0, TRUE, SomeLeader(appointed))

\* ---------------------------------------------------------------------- C19
\* C19: create() gives a standalone contender for the empty string; for a
\* string that starts with zk://, a contender on the service when the URL
\* parses with a path other than "/", and an error when the path is "/" or
\* the URL does not parse; for a string that starts with file://, an error
\* when the file cannot be read and otherwise exactly what create() gives
\* for the trimmed contents of the file; an error for every other string.
\* What the call returned is this result.
C19_CreateFollowsTable ==
  LET r == create(zk, files, MaxDepth)
      read == osRead(files, Tail(zk))
  IN /\ zk = <<>> => r = Standalone
     /\ startsWith(zk, "zk://") =>
          IF parse(zk).ok /\ parse(zk).path # <<"/">>
          THEN r = ZooKeeper(Tail(zk))
          ELSE r.kind = "error"
     /\ startsWith(zk, "file://") =>
          IF read.ok THEN r = create(trim(read.data), files, MaxDepth)
          ELSE r = Error(ReadFailedMsg, Tail(zk))
     /\ (zk # <<>> /\ ~startsWith(zk, "zk://")
           /\ ~startsWith(zk, "file://"))
          => r = Error(ParseFailedMsg, zk)
     /\ created # NotCreated => created = r

\* create() was given the file:// string of a file that holds a good URL
\* between whitespace, and has returned a contender on the service.
C19_Witness ==
  /\ startsWith(zk, "file://")
  /\ osRead(files, Tail(zk)).ok
  /\ trim(osRead(files, Tail(zk)).data) # osRead(files, Tail(zk)).data
  /\ created.kind = "zookeeper"

\* ---------------------------------------------------------------------- C20
\* C20: each of the six operators says of two memberships what the same
\* comparison says of their sequences, whatever their cancelled futures
\* are: memberships with the same sequence are equal.  The operators are
\* one total order: exactly one of <, == and > holds, > is < with the sides
\* exchanged, <= is < or ==, >= is > or ==, != is not ==, < is transitive,
\* and the older membership (lower sequence) comes first.  What the
\* comparison returned is this.
C20_OrderedBySequenceAlone ==
  /\ eq(lhs, rhs) = (id(lhs) = id(rhs))
  /\ ne(lhs, rhs) = (id(lhs) # id(rhs))
  /\ lt(lhs, rhs) = (id(lhs) < id(rhs))
  /\ le(lhs, rhs) = (id(lhs) <= id(rhs))
  /\ gt(lhs, rhs) = (id(lhs) > id(rhs))
  /\ ge(lhs, rhs) = (id(lhs) >= id(rhs))
  /\ id(lhs) = lhs.sequence
  /\ lhs.sequence = rhs.sequence =>
       /\ eq(lhs, rhs) /\ le(lhs, rhs) /\ ge(lhs, rhs)
       /\ ~ne(lhs, rhs) /\ ~lt(lhs, rhs) /\ ~gt(lhs, rhs)
  /\ Cardinality({v \in {"lt", "eq", "gt"} :
                    \/ v = "lt" /\ lt(lhs, rhs)
                    \/ v = "eq" /\ eq(lhs, rhs)
                    \/ v = "gt" /\ gt(lhs, rhs)}) = 1
  /\ gt(lhs, rhs) = lt(rhs, lhs)
  /\ le(lhs, rhs) = (lt(lhs, rhs) \/ eq(lhs, rhs))
  /\ ge(lhs, rhs) = (gt(lhs, rhs) \/ eq(lhs, rhs))
  /\ ne(lhs, rhs) = ~eq(lhs, rhs)
  /\ (lt(lhs, rhs) /\ lt(rhs, third)) => lt(lhs, third)
  /\ (eq(lhs, rhs) /\ eq(rhs, third)) => eq(lhs, third)
  /\ compared.done =>
       /\ compared.eq = eq(lhs, rhs) /\ compared.ne = ne(lhs, rhs)
       /\ compared.lt = lt(lhs, rhs) /\ compared.le = le(lhs, rhs)
       /\ compared.gt = gt(lhs, rhs) /\ compared.ge = ge(lhs, rhs)

\* Two memberships with the same sequence and different cancelled futures
\* were compared, and found equal.
C20_Witness ==
  /\ lhs.sequence = rhs.sequence /\ lhs.cancelled # rhs.cancelled
  /\ compared.done /\ compared.eq /\ ~compared.ne

\* ================================================= claims about the Group
\* ---------------------------------------------------------------------- C21
\* The cancelled promise of sequence q is set in this step.
Resolves(q) == cancelledP[q] = "pending" /\ cancelledP'[q] # "pending"

\* C21: a membership's cancelled future resolves at most once and then
\* stays as it is: the promise of a sequence is pending exactly while the
\* sequence is in owned or unowned, a step sets it only when it is pending
\* and removes the entry with it, and a promise that is set is not set
\* again (a sequence seen again after a session loss is a new unowned
\* membership with a promise of its own).  It is set to true only for an
\* owned membership whose znode this group's cancel() deletes, and to false
\* by every other removal: the expiry of the session, a znode that a
\* refresh of the cache finds gone, owned or unowned.
C21_CancelledSetOnce ==
  /\ [](/\ \A q \in Seqs :
             cancelledP[q] = "pending" <=> q \in owned \cup unowned
        /\ owned \cap unowned = {}
        /\ \A q \in owned \cup unowned : AfterExpiry.cp[q] = "false"
        /\ \A q \in (owned \cup unowned) \ znodes :
             Cache(GroupNow).cp[q] = "false"
        /\ \A q \in owned \cap znodes :
             (error = "" /\ gstate = "CONNECTED")
               => Cancel(GroupNow, q).cp[q] = "true")
  /\ [][\A q \in Seqs :
          /\ cancelledP[q] \in {"true", "false"}
               => \/ cancelledP'[q] = cancelledP[q]
                  \/ cancelledP'[q] = "pending" /\ q \in unowned'
          /\ Resolves(q) => q \notin owned' \cup unowned'
          /\ (Resolves(q) /\ cancelledP'[q] = "true")
               => /\ q \in owned /\ q \in znodes /\ q \notin znodes'
                  /\ \/ \E i \in DOMAIN pendingCancels :
                          pendingCancels[i].q = q
                     \/ cancelledP' = Cancel(GroupNow, q).cp
          /\ (Resolves(q) /\ q \in unowned) => cancelledP'[q] = "false"]_vars

\* One membership was cancelled by this group and its future is true;
\* another was removed otherwise and its future is false.
C21_Witness ==
  /\ \E q \in Seqs : cancelledP[q] = "true"
  /\ \E q \in Seqs : cancelledP[q] = "false"

\* ---------------------------------------------------------------------- C22
\* The callbacks among cbs that answer a watch.
WatchCallbacks(cbs) == SelectSeq(cbs, LAMBDA b : b.m.t = "watched")

\* The snapshot S handed to each of the watches pw that expects another set.
ResolvedBy(pw, S) ==
  LET differ == SelectSeq(pw, LAMBDA w : w.e # S)
  IN [i \in DOMAIN differ |-> Callback(differ[i].c, WatchedOk(S))]

\* The child watch of the group znode has fired and updated() is on its
\* way: the guard of GroupUpdated.
UpdateDue ==
  /\ error = "" /\ gstate = "CONNECTED"
  /\ \/ ~memberships.valid
     \/ memberships.set # znodes
     \/ \E i \in DOMAIN pendingWatches : pendingWatches[i].e # znodes

\* What the group becomes when it refreshes its cache now: by updated()
\* while connected, by connected() otherwise.
Refreshed ==
  IF error # "" \/ nextSeq + Len(pendingJoins) - 1 > MaxSeq THEN {}
  ELSE IF gstate = "CONNECTED" THEN {Update(Cache(GroupNow))}
  ELSE {Sync([GroupNow EXCEPT !.gstate = "CONNECTED", !.timer = "none"])}

ExpectingNothing(pw) == SelectSeq(pw, LAMBDA w : w.e = {})

CancelAnswer(f) == <<Callback(epoch, CancelledMsg(f))>>

\* The cancels among the callbacks cbs that were answered with true.
Succeeded(cbs) ==
  SelectSeq(cbs, LAMBDA b : b.m.t = "cancelled" /\ b.m.r = Ready("true"))

C25_CacheIsOwnedAndUnowned ==
  /\ memberships.valid => memberships.set = owned \cup unowned
  /\ LET g == Cache(GroupNow)
     IN g.mem.valid /\ g.mem.set = g.owned \cup g.unowned
                    /\ g.mem.set = znodes
  /\ \A g \in Refreshed : g.mem.set = g.owned \cup g.unowned

\* The cache is valid and holds a membership of this group and one that
\* the group does not own.
C25_Witness ==
  /\ memberships.valid /\ owned # {} /\ unowned # {}
  /\ memberships.set = owned \cup unowned

\* ---------------------------------------------------------------------- C26
\* The group g with nothing dispatched yet.
Quiet(g) == [g EXCEPT !.out = <<>>]

\* connected(reconnect) on the group g.
ConnectedFrom(g) ==
  Sync([Quiet(g) EXCEPT !.gstate = "CONNECTED", !.timer = "none"])

GroupGoesOn ==
  {Update(Cache(GroupNow)), ConnectedFrom(GroupNow), TimeOut(GroupNow),
   [GroupNow EXCEPT !.gstate = "DISCONNECTED", !.timer = "armed",
                    !.mem = NoneCache]}

\* C27: destroying a LeaderContender whose join has resolved issues one
\* group cancel of its membership, whether withdraw() was called or not,
\* and does not wait for it: the process is terminated in the same step
\* with nothing queued, and the answer is delivered to nobody.  Destroying
\* it while the join is pending, or after the join failed, issues no
\* cancel and leaves the group as it is: the pending join stays, the group
\* completes it when it connects, nobody is told, and as no cancel is
\* pending the group never deletes that znode: it goes with the expiry of
\* the session (or is deleted from outside).
C27_DestroyCancelsWhatItJoined ==
  /\ (Live /\ candidacy.st = "ready")
       => LET x == finalize(ContenderNow)
          IN /\ x.cancelsIssued = Append(cancelsIssued, candidacy.seq)
             /\ x.g = Cancel(GroupNow, candidacy.seq)
             /\ x.joinsIssued = joinsIssued
  /\ (Live /\ candidacy.st # "ready")
       => LET x == finalize(ContenderNow)
          IN x.cancelsIssued = cancelsIssued /\ x.g = GroupNow
  /\ terminated => mailbox = <<>>
  /\ (terminated /\ error = "" /\ gstate # "CONNECTED"
        /\ nextSeq + Len(pendingJoins) - 1 <= MaxSeq)
       => LET g == ConnectedFrom(GroupNow)
          IN /\ g.pj = <<>> /\ g.pc = <<>>
             /\ Deliver(<<>>, g.out) = <<>>
             /\ (pendingJoins # <<>> /\ candidacy.st = "pending")
                  => /\ g.cand = ReadyM(nextSeq)
                     /\ nextSeq \in g.owned \cap g.znodes
                     /\ cancelsIssued = <<>>
  /\ (terminated /\ error = "" /\ pendingCancels = <<>>)
       => /\ \A g \in GroupGoesOn : znodes \cap mine \subseteq g.znodes
          /\ AfterExpiry.znodes \cap mine = {}

\* The contender was destroyed while its join was pending: no cancel was
\* ever issued, the group has completed the join since, and the membership
\* is in the group with nobody to cancel it.
C27_Witness ==
  /\ terminated /\ joinsIssued = 1 /\ cancelsIssued = <<>>
  /\ withdrawCalls = 0
  /\ candidacy.st = "ready" /\ candidacy.seq \in owned \cap znodes
  /\ gstate = "CONNECTED" /\ pendingCancels = <<>>

\* ---------------------------------------------------------------------- C28
\* C28: while the LeaderContender lives (until its destructor runs), a slot
\* that is assigned stays assigned; watching is assigned only with
\* contending assigned and candidacy ready, by joined() and by nothing
\* else; withdrawing is assigned only with contending assigned, by
\* withdraw() and by nothing else, and contending by contend() alone.
C28_SlotsStayAssigned ==
  /\ [](/\ watching = "Some"
             => contending = "Some" /\ candidacy.st = "ready"
        /\ withdrawing = "Some" => contending = "Some"
        /\ {contending, watching, withdrawing} \subseteq {"None", "Some"})
  /\ [][/\ ~terminated'
             => /\ contending = "Some" => contending' = "Some"
                /\ watching = "Some" => watching' = "Some"
                /\ withdrawing = "Some" => withdrawing' = "Some"
        /\ (contending = "None" /\ contending' = "Some")
             => Handles("contend")
        /\ (watching = "None" /\ watching' = "Some")
             => Handles("joined") /\ contending = "Some"
                  /\ candidacy.st = "ready"
        /\ (withdrawing = "None" /\ withdrawing' = "Some")
             => Handles("withdraw") /\ contending = "Some"]_vars

\* The three slots of a running contender are assigned, and the promises
\* of contending and withdrawing have been set.
C28_Witness ==
  /\ Live
  /\ contending = "Some" /\ watching = "Some" /\ withdrawing = "Some"
  /\ contendingFut.st = "ready" /\ withdrawingFut.st = "ready"

\* ---------------------------------------------------------------------- C29
\* C29: no CHECK of joined(), watched() or cancelled() fails, in whatever
\* order the client's calls, the group's answers and the session events
\* arrive.  joined() runs with contending assigned, watching unassigned
\* and candidacy resolved; watched() runs with contending assigned and its
\* future ready, and when it is handed a snapshot with no withdraw()
\* handled, watching is assigned and candidacy ready; cancelled() runs
\* with candidacy ready and withdrawing assigned; none of the three
\* handlers aborts, and the process aborts only in contend() or withdraw()
\* (a second contend(), a withdraw() before contend()).
C29_NoCheckFails ==
  /\ [](/\ Handles("joined")
             => /\ contending = "Some" /\ watching = "None"
                /\ candidacy.st \in {"ready", "failed"}
        /\ Handles("watched")
             => /\ contending = "Some" /\ contendingFut.st = "ready"
                /\ Head(mailbox).r.st \in {"ready", "failed"}
                /\ (Head(mailbox).r.st = "ready" /\ withdrawing = "None")
                     => watching = "Some" /\ candidacy.st = "ready"
        /\ Handles("cancelled")
             => candidacy.st = "ready" /\ withdrawing = "Some"
        /\ (\E t \in {"joined", "watched", "cancelled", "cancel"} :
              Handles(t))
             => ~Handler(Head(mailbox)).aborted)
  /\ [][(~aborted /\ aborted')
          => Handles("contend") \/ Handles("withdraw")]_vars

\* joined() and cancelled() have run on a contender that is alive, and
\* watched() is about to run on a watch that the group failed.
C29_Witness ==
  /\ Live
  /\ contendingFut.st = "ready" /\ watching = "Some"
  /\ withdrawingFut.st = "ready" /\ cancelOutcome # <<>>
  /\ Handles("watched") /\ Head(mailbox).r.st = "failed"

\* ---------------------------------------------------------------------- C30
\* The memberships created through the master contender that are in the
\* group: the znodes of the session of its Group.
Remaining == znodes \cap mine

\* C30: re-contending withdraws the previous membership.  Once the group
\* is connected with a fresh cache, has served every join and cancel, and
\* the contender has nothing queued, at most one membership created
\* through the master contender remains, and it is the one of the latest
\* contend().
C30_OneMembershipRemains ==
  (/\ ~aborted /\ error = ""
   /\ GroupSettled /\ ContenderIdle
   /\ pendingJoins = <<>> /\ pendingCancels = <<>>)
    => /\ Cardinality(Remaining) <= 1
       /\ Remaining # {}
            => candidacy.st = "ready" /\ Remaining = {candidacy.seq}

====
